---- MODULE Spec2Model ----
(***************************************************************************)
(* The agent execution engine of OpenManusWebUI: the conversation buffer   *)
(* (app/schema.py, Memory), the execution loop (app/agent/base.py,         *)
(* BaseAgent.run) and the think/act cycle (app/agent/toolcall.py,          *)
(* ToolCallAgent).                                                         *)
(*                                                                         *)
(* Text.  A Python str is a sequence of segments [s, k]: the string s      *)
(* repeated k times.  A segment is either a run of one character           *)
(* (Len(s) = 1, any k >= 1) or a literal (k = 1).  None and "" are both    *)
(* the empty sequence: the code only ever tests a text for truthiness.     *)
(* Characters SANY cannot read inside a string are written with stand-ins  *)
(* of the same length: the backquote as ^, a non-ASCII character as J,     *)
(* and the two-character keyword "juuyou" (important) as @@.               *)
(***************************************************************************)
EXTENDS Integers, Sequences, FiniteSets, TLC

VARIABLES
    messages,                 \* Memory.messages
    state,                    \* BaseAgent.state
    current_step,             \* BaseAgent.current_step
    next_step_prompt,         \* BaseAgent.next_step_prompt
    tool_calls,               \* ToolCallAgent.tool_calls
    tool_choices,             \* ToolCallAgent.tool_choices
    max_steps,                \* BaseAgent.max_steps
    recent_tools_used,        \* BaseAgent.recent_tools_used
    accuracy_issues_detected, \* BaseAgent.accuracy_issues_detected
    progress_file_initialized,\* BaseAgent.progress_file_initialized
    current_task_id,          \* BaseAgent.current_task_id, "" for None
    completed_tasks,          \* BaseAgent.completed_tasks
    created_files,            \* BaseAgent.created_files (the paths)
    pc,                       \* position of the run() coroutine
    previous_state,           \* state_context: previous_state
    results,                  \* run(): results
    step_result,              \* run(): step_result
    act_results,              \* act(): results
    act_idx,                  \* act(): position in the for loop over tool_calls
    cancel_event,             \* the asyncio.Event passed to run()
    outcome,                  \* how the last run() call ended
    obs,                      \* observations of the run (history)
    _lock,                    \* ThinkingTracker._lock: "free" or its holder
    stack,                    \* the ThinkingTracker calls of each thread
    _ws_send_callbacks,       \* the session is in ThinkingTracker._ws_send_callbacks
    _session_logs,            \* entries in ThinkingTracker._session_logs
    _session_steps,           \* entries in ThinkingTracker._session_steps
    _session_status,          \* ThinkingTracker._session_status, "" if absent
    active_sessions,          \* app.py active_sessions[session_id]
    cancel_events,            \* app.py cancel_events[session_id]
    web_pc                    \* position of the process_prompt task

vars == <<messages, state, current_step, next_step_prompt, tool_calls,
          tool_choices, max_steps, recent_tools_used, accuracy_issues_detected,
          progress_file_initialized, current_task_id, completed_tasks,
          created_files, pc, previous_state, results, step_result,
          act_results, act_idx, cancel_event, outcome, obs,
          _lock, stack, _ws_send_callbacks, _session_logs, _session_steps,
          _session_status, active_sessions, cancel_events, web_pc>>

\* the state of the agent
agent_vars == <<messages, state, current_step, next_step_prompt, tool_calls,
                tool_choices, max_steps, recent_tools_used,
                accuracy_issues_detected, progress_file_initialized,
                current_task_id, completed_tasks, created_files, pc,
                previous_state, results, step_result, act_results, act_idx,
                cancel_event, outcome, obs>>

\* the state of ThinkingTracker
tracker_vars == <<_lock, stack, _ws_send_callbacks, _session_logs,
                  _session_steps, _session_status>>

\* the state of the web application's session
session_vars == <<active_sessions, cancel_events, web_pc>>

\* the state of the web layer
web_vars == <<tracker_vars, session_vars>>

-----------------------------------------------------------------------------
(* Bounds *)

MaxAdds  == 4       \* add_message calls in a buffer-only behaviour
MaxRuns  == 2       \* run() calls on one agent
MaxBatch == 2       \* tool calls in one model response

-----------------------------------------------------------------------------
(* The web layer before any request: ThinkingTracker's class attributes    *)
(* and the dictionaries of app.py                                           *)

Threads == {"loop", "worker"}

NoSession == [status |-> "", result |-> <<>>]

WebConstructed ==
    /\ _lock = "free"
    /\ stack = [t \in Threads |-> <<>>]
    /\ _ws_send_callbacks = FALSE
    /\ _session_logs = 0
    /\ _session_steps = 0
    /\ _session_status = ""
    /\ active_sessions = NoSession
    /\ cancel_events = "absent"
    /\ web_pc = "none"

-----------------------------------------------------------------------------
(* Text *)

Seg(s, k) == [s |-> s, k |-> k]
Lit(s)    == IF s = "" THEN <<>> ELSE <<Seg(s, 1)>>
Rep(c, k) == IF k = 0 THEN <<>> ELSE <<Seg(c, k)>>
NL        == Rep("\n", 1)

SegLen(g) == Len(g.s) * g.k

\* the texts
Text == Seq([s : STRING, k : Nat])

RECURSIVE SumLen(_, _, _)
\* the characters of the segments a..b of t, summed by halves
SumLen(t, a, b) ==
    IF a > b THEN 0
    ELSE IF a = b THEN SegLen(t[a])
    ELSE LET m == (a + b) \div 2
         IN  SumLen(t, a, m) + SumLen(t, m + 1, b)

\* len(t), a function of the text's value
len[t \in Text] == SumLen(t, 1, Len(t))

TLen(t) == len[t]

\* a + b, a function of the two texts' values
cat[a \in Text, b \in Text] ==
    IF a = <<>> THEN b
    ELSE IF b = <<>> THEN a
    ELSE LET x == a[Len(a)]
             y == b[1]
         IN  IF x.s = y.s /\ Len(x.s) = 1
             THEN SubSeq(a, 1, Len(a) - 1) \o <<Seg(x.s, x.k + y.k)>> \o Tail(b)
             ELSE a \o b

Cat(a, b) == cat[a, b]

Cat3(a, b, c) == Cat(Cat(a, b), c)

\* the first n characters of one segment
SegTake(g, n) ==
    IF n <= 0 THEN <<>>
    ELSE IF n >= SegLen(g) THEN <<g>>
    ELSE IF Len(g.s) = 1 THEN <<Seg(g.s, n)>>
    ELSE <<Seg(SubSeq(g.s, 1, n), 1)>>

\* the characters of one segment after the first n
SegDrop(g, n) ==
    IF n <= 0 THEN <<g>>
    ELSE IF n >= SegLen(g) THEN <<>>
    ELSE IF Len(g.s) = 1 THEN <<Seg(g.s, g.k - n)>>
    ELSE <<Seg(SubSeq(g.s, n + 1, Len(g.s)), 1)>>

\* the segment of t that holds character number n (1-based), 1 <= n <= len(t)
RECURSIVE SegFind(_, _, _, _)
SegFind(t, n, lo, hi) ==
    IF lo >= hi THEN lo
    ELSE LET m == (lo + hi) \div 2
             s == SumLen(t, lo, m)
         IN  IF n <= s THEN SegFind(t, n, lo, m)
             ELSE SegFind(t, n - s, m + 1, hi)

SegAt(t, n) == SegFind(t, n, 1, Len(t))

\* t[:n]
TTake(t, n) ==
    IF t = <<>> \/ n <= 0 THEN <<>>
    ELSE IF n >= SumLen(t, 1, Len(t)) THEN t
    ELSE LET i == SegAt(t, n)
         IN  SubSeq(t, 1, i - 1) \o SegTake(t[i], n - SumLen(t, 1, i - 1))

\* t[n:]
TDrop(t, n) ==
    IF t = <<>> THEN <<>>
    ELSE IF n <= 0 THEN t
    ELSE IF n >= SumLen(t, 1, Len(t)) THEN <<>>
    ELSE LET i == SegAt(t, n + 1)
         IN  SegDrop(t[i], n - SumLen(t, 1, i - 1)) \o SubSeq(t, i + 1, Len(t))

\* t[-n:]
TLast(t, n) == TDrop(t, TLen(t) - n)

IsSpace(g) == g.s \in {" ", "\n", "\t"}

\* t.strip(): literals of the model neither start nor end with whitespace
RECURSIVE LStrip(_)
LStrip(t) == IF t = <<>> THEN <<>>
             ELSE IF IsSpace(t[1]) THEN LStrip(Tail(t)) ELSE t

RECURSIVE RStrip(_)
RStrip(t) == IF t = <<>> THEN <<>>
             ELSE IF IsSpace(t[Len(t)]) THEN RStrip(SubSeq(t, 1, Len(t) - 1)) ELSE t

Strip(t) == RStrip(LStrip(t))

\* str(n)
Str(n) == Lit(ToString(n))

-----------------------------------------------------------------------------
(* Message (app/schema.py) *)

Roles == {"system", "user", "assistant", "tool"}

Message(role, content, calls, name, tool_call_id, importance) ==
    [role |-> role, content |-> content, tool_calls |-> calls,
     name |-> name, tool_call_id |-> tool_call_id, importance |-> importance]

user_message(content)      == Message("user", content, <<>>, "", "", 8)
system_message(content)    == Message("system", content, <<>>, "", "", 10)
assistant_message(content) == Message("assistant", content, <<>>, "", "", 5)

tool_message(content, name, tool_call_id) ==
    Message("tool", content, <<>>, name, tool_call_id,
            IF content /= <<>> /\ TLen(content) > 500 THEN 7 ELSE 6)

from_tool_calls(calls, content) ==
    Message("assistant", content, calls, "", "", 7)

-----------------------------------------------------------------------------
(* Memory (app/schema.py) *)

context_length_limit == 8192

\* t.split("\n"): the runs of segments between the newline characters
Split(t) ==
    LET n       == Len(t)
        IsNL(i) == t[i].s = "\n"
        \* the newline characters of the first i segments, for every i
        breaks  == SubSeq([i \in 1..n |->
                              SumLen([m \in 1..i |-> IF IsNL(m) THEN Seg("J", t[m].k)
                                                     ELSE Seg("", 1)], 1, i)], 1, n)
        total   == IF n = 0 THEN 0 ELSE breaks[n]
        Part(j) == {i \in 1..n : ~IsNL(i) /\ breaks[i] = j}
        Line(j) == IF Part(j) = {} THEN <<>>
                   ELSE LET a == CHOOSE i \in Part(j) : \A m \in Part(j) : i <= m
                            b == CHOOSE i \in Part(j) : \A m \in Part(j) : i >= m
                        IN  SubSeq(t, a, b)
    IN  SubSeq([j \in 1..(total + 1) |-> Line(j - 1)], 1, total + 1)

RECURSIVE Join(_, _)
\* sep.join(ts)
Join(ts, sep) ==
    IF ts = <<>> THEN <<>>
    ELSE IF Len(ts) = 1 THEN ts[1]
    ELSE Cat3(ts[1], sep, Join(Tail(ts), sep))

StartsWith(t, prefix) == TTake(t, Len(prefix)) = Lit(prefix)

_summarize_tool_output(content) ==
    IF content = <<>> \/ TLen(content) < 300 THEN content
    ELSE LET lines  == Split(content)
             header == lines[1]
             body   == Join(SubSeq(lines, 2, 3), NL)
             footer == Cat3(Cat(NL, Lit("... (J, JJJJ: ")), Str(Len(lines)), Lit("J)"))
         IN  IF StartsWith(content, "Observed output of cmd") /\ Len(lines) > 6
             THEN Cat3(Cat(header, NL), body, footer)
             ELSE IF TLen(content) > 500
             THEN LET short_version == Strip(TTake(content, 200))
                      tail          == Strip(TLast(content, 100))
                  IN  Cat3(Cat3(short_version, NL, Lit("...")),
                           Cat3(NL, tail, NL),
                           Cat3(Lit("(J, JJJJ: "), Str(TLen(content)), Lit("JJ)")))
             ELSE content

RECURSIVE ContextLength(_)
\* sum(len(msg.content or "") for msg in self.messages)
ContextLength(msgs) ==
    IF msgs = <<>> THEN 0 ELSE TLen(msgs[1].content) + ContextLength(Tail(msgs))

Min(a, b) == IF a < b THEN a ELSE b
Max(a, b) == IF a > b THEN a ELSE b

\* preserved_indices without the most recent turns
PreservedIndicesNoRecent(msgs) ==
    LET n == Len(msgs)
    IN  (IF n > 0 /\ msgs[1].role = "user" THEN {1} ELSE {})
        \cup {i \in 1..n : msgs[i].importance >= 8}

\* preserved_indices (1-based)
PreservedIndices(msgs) ==
    LET n            == Len(msgs)
        recent_count == Min(5, n \div 3)
    IN  (IF n > 0 /\ msgs[1].role = "user" THEN {1} ELSE {})
        \cup {i \in 1..n : i > n - recent_count}
        \cup {i \in 1..n : msgs[i].importance >= 8}

\* position of a role among the keys of grouped_msgs (insertion order)
RoleRank(msgs, role) ==
    CHOOSE i \in 1..Len(msgs) :
        msgs[i].role = role /\ \A j \in 1..(i - 1) : msgs[j].role /= role

BeforeDescending(msgs, i, j) ==
    \/ msgs[i].importance > msgs[j].importance
    \/ /\ msgs[i].importance = msgs[j].importance
       /\ \/ RoleRank(msgs, msgs[i].role) < RoleRank(msgs, msgs[j].role)
          \/ msgs[i].role = msgs[j].role /\ i < j

\* candidate i is visited before candidate j: the stable sort by importance
\* of the per-role candidate lists, themselves stably sorted by importance
Before(msgs, i, j) ==
    \/ msgs[i].importance < msgs[j].importance
    \/ /\ msgs[i].importance = msgs[j].importance
       /\ \/ RoleRank(msgs, msgs[i].role) < RoleRank(msgs, msgs[j].role)
          \/ msgs[i].role = msgs[j].role /\ i < j

RECURSIVE SortCandidates(_, _)
SortCandidates(msgs, S) ==
    IF S = {} THEN <<>>
    ELSE LET m == CHOOSE i \in S : \A j \in S \ {i} : Before(msgs, i, j)
         IN  <<m>> \o SortCandidates(msgs, S \ {m})

\* to_optimize, in the order the final loop visits it
to_optimize(msgs) ==
    SortCandidates(msgs, {i \in 1..Len(msgs) :
                            /\ msgs[i].role \in {"tool", "assistant"}
                            /\ i \notin PreservedIndices(msgs)})

\* the body of the final loop for one candidate: the new text
OptimizeContent(m) ==
    IF m.content = <<>> THEN m.content
    ELSE IF m.role = "tool" THEN _summarize_tool_output(m.content)
    ELSE IF TLen(m.content) > 200
    THEN LET original_len == TLen(m.content)
             max_len      == Max(150, (original_len * 3) \div 10)
         IN  Cat(TTake(m.content, max_len),
                 Cat3(Lit("... (J, JJJJ: "), Str(original_len), Lit("JJ)")))
    ELSE m.content

RECURSIVE OptimizeLoop(_, _, _, _)
OptimizeLoop(msgs, order, chars_reduced, reduction_needed) ==
    IF order = <<>> \/ chars_reduced >= reduction_needed THEN msgs
    ELSE LET i    == order[1]
             new  == OptimizeContent(msgs[i])
         IN  OptimizeLoop([msgs EXCEPT ![i].content = new], Tail(order),
                          chars_reduced + TLen(msgs[i].content) - TLen(new),
                          reduction_needed)

\* an eviction pass that drops the oldest turn
_optimize_history_dropping(msgs) ==
    IF ContextLength(msgs) <= context_length_limit THEN msgs ELSE Tail(msgs)

_optimize_history(msgs) ==
    LET current_length == ContextLength(msgs)
    IN  IF current_length <= context_length_limit THEN msgs
        ELSE OptimizeLoop(msgs, to_optimize(msgs), 0,
                          current_length - context_length_limit + 500)

MergeLatestImportance(last, message) ==
    [last EXCEPT
        !.content    = IF message.content /= <<>>
                       THEN IF last.content /= <<>>
                            THEN Cat3(last.content, NL, message.content)
                            ELSE message.content
                       ELSE last.content,
        !.tool_calls = last.tool_calls \o message.tool_calls,
        !.importance = message.importance]

\* the coalescing branch of add_message
Merge(last, message) ==
    [last EXCEPT
        !.content    = IF message.content /= <<>>
                       THEN IF last.content /= <<>>
                            THEN Cat3(last.content, NL, message.content)
                            ELSE message.content
                       ELSE last.content,
        !.tool_calls = last.tool_calls \o message.tool_calls,
        !.importance = Max(last.importance, message.importance)]

\* add_message without the same-role branch
CoalesceAppendOnly(msgs, message) == Append(msgs, message)

Coalesce(msgs, message) ==
    IF Len(msgs) > 0 /\ msgs[Len(msgs)].role = message.role
    THEN [msgs EXCEPT ![Len(msgs)] = Merge(msgs[Len(msgs)], message)]
    ELSE Append(msgs, message)

\* add_message: the coalescing or appending, then _optimize_history on the
\* buffer it leaves
add_message(msgs, message) ==
    CHOOSE after \in {_optimize_history(m) : m \in {Coalesce(msgs, message)}} : TRUE

\* the adjacent-role property of a buffer
Alternating(msgs) == \A i \in 1..(Len(msgs) - 1) : msgs[i].role /= msgs[i + 1].role

-----------------------------------------------------------------------------
(* Configuration of the agent (app/agent/base.py, app/agent/toolcall.py) *)

MaxSteps == 2       \* max_steps of the agent under check
MaxCalls == 2       \* tool calls the model requests over the agent's life

duplicate_threshold       == 3
accuracy_monitor_interval == 10
step_review_interval      == 5

\* available_tools.tool_map and special_tool_names of ToolCallAgent
tool_map           == {"create_chat_completion", "terminate"}
special_tool_names == {"terminate"}

\* str.lower() on the tool names of the model
Lower(name) == IF name = "Terminate" THEN "terminate" ELSE name

_is_special_tool(name) == Lower(name) \in {Lower(n) : n \in special_tool_names}

\* json.loads(arguments or "{}") succeeds
JsonValid(arguments) == arguments \in {"", "{}"}

-----------------------------------------------------------------------------
(* Inputs: what the collaborators may answer *)

Requests        == {<<>>, Lit("request")}
NextStepPrompts == {Lit("next step")}
Contents        == {<<>>, Lit("thought")}
ToolResults     == {Lit("ok")}
\* what the progress file's summary reads as once the file exists
ProgressSummaries == {Lit("progress")}
CallKinds       == { [name |-> "terminate",              arguments |-> "{}"],
                     [name |-> "terminate",              arguments |-> "{"],
                     [name |-> "create_chat_completion", arguments |-> "{}"],
                     [name |-> "create_chat_completion", arguments |-> "{"],
                     [name |-> "Terminate",              arguments |-> "{}"] }

\* the tool calls of one model response, ids numbered by step and position
Batches(step, room) ==
    UNION { { [i \in 1..n |-> [id        |-> <<step, i>>,
                               name      |-> f[i].name,
                               arguments |-> f[i].arguments]] :
              f \in [1..n -> CallKinds] } :
            n \in 0..Min(MaxBatch, room) }

-----------------------------------------------------------------------------
(* BaseAgent (app/agent/base.py) *)

\* state_context without the finally clause
state_context_exit_no_finally(raised, st, prev) == IF raised THEN "ERROR" ELSE st

\* state_context: the state the agent is left in when the block is left.
\* On an exception the except clause assigns ERROR and re-raises; the
\* finally clause then assigns previous_state on every path.
state_context_exit(raised, st, prev) ==
    LET after_except == IF raised THEN "ERROR" ELSE st
    IN  prev

RECURSIVE CountDup(_, _)
\* assistant messages of msgs whose content equals c
CountDup(msgs, c) ==
    IF msgs = <<>> THEN 0
    ELSE (IF msgs[1].role = "assistant" /\ msgs[1].content = c THEN 1 ELSE 0)
         + CountDup(Tail(msgs), c)

\* is_stuck counting the latest turn among the duplicates
is_stuck_counting_latest(msgs, recent) ==
    IF Len(msgs) < 2 THEN FALSE
    ELSE IF msgs[Len(msgs)].content = <<>> THEN FALSE
    ELSE IF Len(recent) >= 3
            /\ recent[Len(recent)] = recent[Len(recent) - 1]
            /\ recent[Len(recent)] = recent[Len(recent) - 2]
         THEN TRUE
         ELSE CountDup(msgs, msgs[Len(msgs)].content) >= duplicate_threshold

is_stuck(msgs, recent) ==
    IF Len(msgs) < 2 THEN FALSE
    ELSE IF msgs[Len(msgs)].content = <<>> THEN FALSE
    ELSE IF Len(recent) >= 3
            /\ recent[Len(recent)] = recent[Len(recent) - 1]
            /\ recent[Len(recent)] = recent[Len(recent) - 2]
         THEN TRUE
         ELSE CountDup(SubSeq(msgs, 1, Len(msgs) - 1), msgs[Len(msgs)].content)
                  >= duplicate_threshold

\* handle_stuck_state: the text put in front of next_step_prompt after the
\* counter has been incremented to n
stuck_prompt(n) ==
    IF n <= 2
    THEN Cat(Rep(" ", 12), Rep("J", 57))
    ELSE Cat3(Cat3(Rep(" ", 12), Lit("@@: "), Rep("J", 18)),
              Cat3(Str(n), Rep("J", 8), Rep(" ", 12)),
              Cat3(Cat3(Rep("J", 26), Rep(" ", 12), Rep("J", 25)),
                   Rep(" ", 12), Rep("J", 36)))

\* handle_stuck_state replacing the pending instruction
handle_stuck_state_replacing(issues, nsp) ==
    [issues |-> issues + 1,
     nsp    |-> Cat(stuck_prompt(issues + 1), NL)]

handle_stuck_state(issues, nsp) ==
    [issues |-> issues + 1,
     nsp    |-> Cat3(stuck_prompt(issues + 1), NL, nsp)]

\* nsp += addition, or nsp = addition when nsp is empty
AppendPrompt(nsp, addition) == IF nsp /= <<>> THEN Cat(nsp, addition) ELSE addition

\* the prompt addition built from the progress file's summary
prompt_addition(progress_summary) ==
    Cat3(Cat3(Rep("\n", 2), Lit("## "), Rep("J", 7)),
         Cat3(NL, progress_summary, Rep("\n", 2)),
         Rep("J", 33))

FirstUser(msgs) ==
    IF \E i \in 1..Len(msgs) : msgs[i].role = "user"
    THEN msgs[CHOOSE i \in 1..Len(msgs) :
                  msgs[i].role = "user" /\ \A j \in 1..(i - 1) : msgs[j].role /= "user"].content
    ELSE <<>>

RECURSIVE JoinStr(_, _)
\* sep.join(names) for a list of plain strings
JoinStr(names, sep) ==
    IF names = <<>> THEN <<>>
    ELSE IF Len(names) = 1 THEN Lit(names[1])
    ELSE Cat3(Lit(names[1]), sep, JoinStr(Tail(names), sep))

\* content[:100] + "..." if len(content) > 100 else content
Excerpt(c) == IF TLen(c) > 100 THEN Cat(TTake(c, 100), Lit("...")) ELSE c

RECURSIVE ToolResultLines(_)
ToolResultLines(msgs) ==
    IF msgs = <<>> THEN <<>>
    ELSE (IF msgs[1].role = "tool" /\ msgs[1].content /= <<>>
          THEN << Cat3(Lit("- "),
                       Lit(IF msgs[1].name /= "" THEN msgs[1].name ELSE "unknown"),
                       Cat(Lit(": "), Excerpt(msgs[1].content))) >>
          ELSE <<>>)
         \o ToolResultLines(Tail(msgs))

LastN(q, n) == SubSeq(q, Max(1, Len(q) - n + 1), Len(q))

\* _create_progress_summary: the new next_step_prompt
_create_progress_summary(msgs, step, recent, nsp) ==
    LET initial_request == FirstUser(msgs)
        recent_msgs     == LastN(msgs, Min(15, Len(msgs)))
        tool_results    == ToolResultLines(recent_msgs)
        summary ==
            Cat3(Cat3(Cat3(Lit("## "), Rep("J", 5), NL),
                      Cat3(Lit("- "), Rep("J", 4), Lit(": ")),
                      Cat3(TTake(initial_request, 100),
                           IF TLen(initial_request) > 100 THEN Lit("...") ELSE <<>>,
                           NL)),
                 Cat3(Cat3(Lit("- "), Rep("J", 7), Lit(": ")),
                      Cat3(Str(step), Lit("/"), Str(max_steps)),
                      NL),
                 Cat(IF recent /= <<>>
                     THEN Cat3(Cat3(Lit("- "), Rep("J", 9), Lit(": ")),
                               JoinStr(LastN(recent, 3), Lit(", ")), NL)
                     ELSE <<>>,
                     IF tool_results /= <<>>
                     THEN Cat3(Cat3(Lit("## @@"), Rep("J", 8), NL),
                               Join(LastN(tool_results, 3), NL), <<>>)
                     ELSE <<>>))
        note == Cat3(Rep("\n", 2), summary,
                     Cat(Rep("\n", 2), Cat3(Rep("J", 31), Lit("@@"), Rep("J", 27))))
    IN  IF initial_request = <<>> THEN nsp ELSE AppendPrompt(nsp, note)

\* _monitor_accuracy: the new next_step_prompt
_monitor_accuracy(msgs, step, issues, recent, nsp) ==
    IF Len(msgs) < 5 THEN nsp
    ELSE IF ContextLength(msgs) > 5000 /\ step > 20
            /\ (issues = 0 \/ step % Max(5, 20 - issues * 3) = 0)
         THEN _create_progress_summary(msgs, step, recent, nsp)
         ELSE nsp

\* what a call of the progress-tracking tool may do: succeed, return a text
\* holding "Error", or raise
TrackerOutcomes == {"ok", "error", "raises"}

\* an exception of the tracker that leaves both try blocks around its call
PropagatesUncaught(out) == out = "raises"

\* whether an exception raised by the tracker leaves the try block of the
\* helper that called it and the try block of run() around the helper:
\* both catch Exception and log it
Propagates(out) == FALSE

\* _initialize_progress_tracking: the new progress_file_initialized
_initialize_progress_tracking(out) == out = "ok"

\* _add_task_to_progress_file: the new current_task_id
_add_task_to_progress_file(out, task_id, current) ==
    IF out = "ok" THEN task_id ELSE current

\* _read_progress_file followed by _extract_progress_summary, the file's
\* summary being progress_summary: "" when the read failed
_read_progress_file(out, progress_summary) ==
    IF out = "ok" THEN progress_summary ELSE <<>>

\* the occurrences of pat in the string str
CountIn(str, pat) ==
    Cardinality({k \in 1..(Len(str) - Len(pat) + 1) :
                    SubSeq(str, k, k + Len(pat) - 1) = pat})

RECURSIVE Count(_, _)
\* text.count(pat) for a pattern of several different characters, which
\* lies inside one literal
Count(text, pat) ==
    IF text = <<>> THEN 0
    ELSE (IF text[1].k = 1 THEN CountIn(text[1].s, pat) ELSE 0)
         + Count(Tail(text), pat)

\* the path of "Content successfully saved to <path> in workspace", "" when
\* the string is not such a message; the paths of the model hold no space
SavedPath(str) ==
    LET head == "Content successfully saved to "
        tail == " in workspace"
    IN  IF /\ Len(str) > Len(head) + Len(tail)
           /\ SubSeq(str, 1, Len(head)) = head
           /\ SubSeq(str, Len(str) - Len(tail) + 1, Len(str)) = tail
        THEN SubSeq(str, Len(head) + 1, Len(str) - Len(tail))
        ELSE ""

RECURSIVE _detect_file_operations(_)
\* the paths of the files a step's result reports as saved; the message is
\* one literal of the text
_detect_file_operations(result) ==
    IF result = <<>> THEN <<>>
    ELSE (IF result[1].k = 1 /\ SavedPath(result[1].s) /= ""
          THEN <<SavedPath(result[1].s)>> ELSE <<>>)
         \o _detect_file_operations(Tail(result))

\* the texts of the model are lower case and hold none of the Japanese
\* patterns
_detect_task_completion(result) ==
    \/ \E pattern \in {"successfully completed", "implementation complete",
                       "task finished"} : Count(result, pattern) > 0
    \/ Count(result, "successfully") >= 2

-----------------------------------------------------------------------------
(* ToolCallAgent (app/agent/toolcall.py) *)

RECURSIVE CallsLength(_)
CallsLength(calls) ==
    IF calls = <<>> THEN 0
    ELSE Len(calls[1].name) + Len(calls[1].arguments) + 50 + CallsLength(Tail(calls))

RECURSIVE _estimate_context_length(_)
_estimate_context_length(msgs) ==
    IF msgs = <<>> THEN 0
    ELSE TLen(msgs[1].content) + CallsLength(msgs[1].tool_calls) + 20
         + _estimate_context_length(Tail(msgs))

LastUser(msgs) ==
    IF \E i \in 1..Len(msgs) : msgs[i].role = "user"
    THEN msgs[CHOOSE i \in 1..Len(msgs) :
                  msgs[i].role = "user"
                  /\ \A j \in (i + 1)..Len(msgs) : msgs[j].role /= "user"].content
    ELSE <<>>

RECURSIVE ToolNames(_)
\* the keys of tool_usage, in insertion order
ToolNames(msgs) ==
    IF msgs = <<>> THEN <<>>
    ELSE LET rest == ToolNames(SubSeq(msgs, 1, Len(msgs) - 1))
             m    == msgs[Len(msgs)]
         IN  IF m.role = "tool" /\ m.name /= ""
                /\ \A i \in 1..Len(rest) : rest[i] /= m.name
             THEN Append(rest, m.name) ELSE rest

ToolCount(msgs, name) ==
    Cardinality({i \in 1..Len(msgs) : msgs[i].role = "tool" /\ msgs[i].name = name})

_analyze_memory_state(msgs) ==
    LET names         == ToolNames(msgs)
        last_user_msg == LastUser(msgs)
        usage == [i \in 1..Len(names) |->
                     Cat3(Lit(names[i]), Lit("("),
                          Cat(Str(ToolCount(msgs, names[i])), Lit("J)")))]
        analysis ==
            << Cat3(Cat3(Lit("- "), Rep("J", 4), Lit(": ")), Str(Len(msgs)), Rep("J", 5)),
               Cat3(Cat3(Lit("- "), Rep("J", 9), Lit(": J")),
                    Str(_estimate_context_length(msgs)), Rep("J", 2)) >>
            \o (IF names /= <<>>
                THEN << Cat(Cat3(Lit("- "), Rep("J", 5), Lit(": ")), Join(usage, Lit(", "))) >>
                ELSE <<>>)
            \o (IF last_user_msg /= <<>>
                THEN << Cat(Cat3(Lit("- "), Rep("J", 5), Lit(": ")), Excerpt(last_user_msg)) >>
                ELSE <<>>)
    IN  Join(analysis, NL)

\* _review_progress: the new next_step_prompt
_review_progress(msgs, step, nsp) ==
    LET summary == Cat3(Cat3(Rep("J", 7), Str(step), Lit("/")), Str(max_steps), Rep("J", 7))
        progress_note ==
            Cat3(Cat3(Rep("\n", 2), Lit("# "), Rep("J", 9)),
                 Cat3(Str(step), Rep("J", 1), NL),
                 Cat3(Cat(summary, NL), _analyze_memory_state(msgs), Rep("\n", 2)))
        focus_instruction == Rep("J", 33)
    IN  AppendPrompt(nsp, Cat(progress_note, focus_instruction))

HasKeyword(line) ==
    \E i \in 1..Len(line) :
        \E k \in 1..(Len(line[i].s) - 1) : SubSeq(line[i].s, k, k + 1) = "@@"

IsDirective(line) ==
    LET stripped == Strip(line)
    IN  \/ TTake(stripped, 1) \in {Lit("#"), Lit("*"), Lit("-"), Lit(">")}
        \/ TTake(stripped, 2) \in {Lit("1."), Lit("2."), Lit("3.")}
        \/ HasKeyword(line)

RECURSIVE SelectDirectives(_)
SelectDirectives(lines) ==
    IF lines = <<>> THEN <<>>
    ELSE (IF IsDirective(lines[1]) THEN <<lines[1]>> ELSE <<>>)
         \o SelectDirectives(Tail(lines))

_optimize_next_step_prompt(nsp) ==
    IF nsp = <<>> \/ TLen(nsp) <= 500 THEN nsp
    ELSE LET lines        == Split(nsp)
             header_lines == Min(3, Len(lines) \div 4)
             kept         == SubSeq(lines, 1, header_lines)
                             \o SelectDirectives(SubSeq(lines, header_lines + 1, Len(lines)))
             footer_lines == Min(3, Len(lines) \div 5)
             \* lines[-footer_lines:] is the whole list when footer_lines = 0
             footer       == IF footer_lines = 0 THEN lines ELSE LastN(lines, footer_lines)
             important    == IF Len(lines) > header_lines + Len(kept)
                             THEN kept \o footer ELSE kept
         IN  IF Len(important) < Len(lines) \div 2
             THEN IF header_lines > 0 /\ Len(important) > header_lines
                  THEN Cat3(Join(SubSeq(important, 1, header_lines), NL),
                            Cat3(NL, Lit("...(JJ)..."), NL),
                            Join(SubSeq(important, header_lines + 1, Len(important)), NL))
                  ELSE Join(important, NL)
             ELSE nsp

\* think(), up to the model request: the self-review and the user message
\* carrying next_step_prompt, which self.messages += [user_msg] puts at the
\* end of the list in place
ThinkPrompt(msgs, step, nsp) ==
    LET nsp1 == IF step > 0 /\ step % step_review_interval = 0
                THEN _review_progress(msgs, step, nsp) ELSE nsp
        effective_prompt == IF TLen(nsp1) > 500
                            THEN _optimize_next_step_prompt(nsp1) ELSE nsp1
    IN  [nsp  |-> nsp1,
         msgs |-> IF nsp1 /= <<>>
                  THEN Append(msgs, user_message(effective_prompt))
                  ELSE msgs]

\* think() returning false under "required" when no tool call was made
ThinkResponseRequiredSkips(mode, msgs, content, calls) ==
    IF mode = "none"
    THEN IF content /= <<>>
         THEN [msgs |-> add_message(msgs, assistant_message(content)), should_act |-> TRUE]
         ELSE [msgs |-> msgs, should_act |-> FALSE]
    ELSE LET assistant_msg == IF calls /= <<>>
                              THEN from_tool_calls(calls, content)
                              ELSE assistant_message(content)
         IN  [msgs       |-> add_message(msgs, assistant_msg),
              should_act |-> IF mode = "required" /\ calls = <<>> THEN FALSE
                             ELSE IF mode = "auto" /\ calls = <<>> THEN content /= <<>>
                             ELSE calls /= <<>>]

\* think(), after the model has answered with (content, calls)
ThinkResponse(mode, msgs, content, calls) ==
    IF mode = "none"
    THEN IF content /= <<>>
         THEN [msgs |-> add_message(msgs, assistant_message(content)), should_act |-> TRUE]
         ELSE [msgs |-> msgs, should_act |-> FALSE]
    ELSE LET assistant_msg == IF calls /= <<>>
                              THEN from_tool_calls(calls, content)
                              ELSE assistant_message(content)
         IN  [msgs       |-> add_message(msgs, assistant_msg),
              should_act |-> IF mode = "required" /\ calls = <<>> THEN TRUE
                             ELSE IF mode = "auto" /\ calls = <<>> THEN content /= <<>>
                             ELSE calls /= <<>>]

TOOL_CALL_REQUIRED == Lit("Tool calls required but none provided")

\* what the tool callable may do once invoked
ToolOutcomes == {[raises |-> FALSE, result |-> r] : r \in ToolResults}
                \cup {[raises |-> TRUE, result |-> Lit("boom")]}

\* execute_tool reaching the tool callable without parsing the arguments
InvokesUnparsed(command) ==
    /\ command.name /= ""
    /\ command.name \in tool_map

\* execute_tool reaches the tool callable
Invokes(command) ==
    /\ command.name /= ""
    /\ command.name \in tool_map
    /\ JsonValid(command.arguments)

\* execute_tool whose except clause returns the exception's text alone
execute_tool_bare(command, out) ==
    IF command.name = ""
    THEN [observation |-> Lit("Error: Invalid command format"), finished |-> FALSE]
    ELSE IF command.name \notin tool_map
    THEN [observation |-> Cat3(Lit("Error: Unknown tool '"), Lit(command.name), Lit("'")),
          finished    |-> FALSE]
    ELSE IF ~JsonValid(command.arguments)
    THEN [observation |-> Cat3(Lit("Error: Error parsing arguments for "),
                               Lit(command.name), Lit(": Invalid JSON format")),
          finished    |-> FALSE]
    ELSE IF out.raises
    THEN [observation |-> out.result, finished |-> FALSE]
    ELSE [observation |-> IF out.result /= <<>>
                          THEN Cat3(Cat3(Lit("Observed output of cmd ^"), Lit(command.name),
                                         Lit("^ executed:")),
                                    NL, out.result)
                          ELSE Cat3(Lit("Cmd ^"), Lit(command.name),
                                    Lit("^ completed with no output")),
          finished    |-> _is_special_tool(command.name)]

\* execute_tool: the observation returned and whether _handle_special_tool
\* set the state to FINISHED
execute_tool(command, out) ==
    IF command.name = ""
    THEN [observation |-> Lit("Error: Invalid command format"), finished |-> FALSE]
    ELSE IF command.name \notin tool_map
    THEN [observation |-> Cat3(Lit("Error: Unknown tool '"), Lit(command.name), Lit("'")),
          finished    |-> FALSE]
    ELSE IF ~JsonValid(command.arguments)
    THEN [observation |-> Cat3(Lit("Error: Error parsing arguments for "),
                               Lit(command.name), Lit(": Invalid JSON format")),
          finished    |-> FALSE]
    ELSE IF out.raises
    THEN [observation |-> Cat3(Cat3(Lit("Error: JJ Tool '"), Lit(command.name),
                                    Lit("' encountered a problem: ")),
                               out.result, <<>>),
          finished    |-> FALSE]
    ELSE [observation |-> IF out.result /= <<>>
                          THEN Cat3(Cat3(Lit("Observed output of cmd ^"), Lit(command.name),
                                         Lit("^ executed:")),
                                    NL, out.result)
                          ELSE Cat3(Lit("Cmd ^"), Lit(command.name),
                                    Lit("^ completed with no output")),
          finished    |-> _is_special_tool(command.name)]

\* act() returning the last observation only
act_return_last(res) == res[Len(res)]

\* what act() returns after its loop: "\n\n".join(results)
act_return(res) == Join(res, Rep("\n", 2))

EndsWith(str, suffix) ==
    Len(str) >= Len(suffix) /\ SubSeq(str, Len(str) - Len(suffix) + 1, Len(str)) = suffix

\* step_result.split("cmd ^")[1].split("^")[0], "" when "cmd ^" does not occur;
\* a tool name is one literal between the two backquotes
tool_match(result) ==
    IF \E i \in 1..Len(result) : EndsWith(result[i].s, "cmd ^")
    THEN LET i == CHOOSE i \in 1..Len(result) :
                      /\ EndsWith(result[i].s, "cmd ^")
                      /\ \A j \in 1..(i - 1) : ~EndsWith(result[j].s, "cmd ^")
         IN  IF i < Len(result) /\ SubSeq(result[i + 1].s, 1, 1) /= "^"
             THEN result[i + 1].s ELSE ""
    ELSE ""

\* the rolling window of tool names after a step
RecordTool(recent, result) ==
    LET name == tool_match(result)
    IN  IF name = "" THEN recent
        ELSE LET r == Append(recent, name)
             IN  IF Len(r) > 5 THEN Tail(r) ELSE r

-----------------------------------------------------------------------------
(* The run() coroutine (app/agent/base.py) and the think/act cycle *)

CANCELLED         == Rep("J", 11)
NO_STEPS_EXECUTED == Lit("No steps executed")
NO_ACTION         == Lit("Thinking complete - no action needed")
NO_CONTENT        == Lit("No content or commands to execute")
MODEL_ERROR       == Lit("model request failed")

\* the while condition with <= for <
LoopConditionOffByOne(step, st) == step <= max_steps /\ st /= "FINISHED"

\* the while condition without the FINISHED test
LoopConditionIgnoreFinished(step, st) == step < max_steps

\* the while condition of run()
LoopCondition(step, st) == step < max_steps /\ st /= "FINISHED"

\* the entry of run() with the request recorded before the state check
RunEntryRecordFirst(st, msgs, request) ==
    [raised |-> st /= "IDLE",
     msgs   |-> IF request /= <<>>
                THEN add_message(msgs, user_message(request)) ELSE msgs]

\* the entry of run(): the state check and the recording of the request
RunEntry(st, msgs, request) ==
    IF st /= "IDLE"
    THEN [raised |-> TRUE, msgs |-> msgs]
    ELSE [raised |-> FALSE,
          msgs   |-> IF request /= <<>>
                     THEN add_message(msgs, user_message(request)) ELSE msgs]

StepEntry(step, result) == Cat(Cat3(Lit("Step "), Str(step), Lit(": ")), result)

Terminated == Cat3(Lit("Terminated: Reached max steps ("), Str(max_steps), Lit(")"))

\* run() returning the step entries without the max-steps marker
RunResultNoMarker(step, res) ==
    IF res /= <<>> THEN Join(res, NL) ELSE NO_STEPS_EXECUTED

\* the value run() returns when the loop is left
RunResult(step, res) ==
    LET all == IF step >= max_steps THEN Append(res, Terminated) ELSE res
    IN  IF all /= <<>> THEN Join(all, NL) ELSE NO_STEPS_EXECUTED

NoOutcome == [kind |-> "none", value |-> <<>>]

InitObs == [adds |-> 0, merged |-> FALSE, runs |-> 0, rejected |-> FALSE,
            asks |-> 0, requested |-> 0, invoked |-> 0, completed |-> 0,
            model_errors |-> 0, iters |-> 0, start_step |-> 0, special |-> FALSE,
            before |-> <<>>, inserted |-> <<>>, synth |-> {},
            tracker |-> [point |-> "none", failed |-> FALSE]]

\* the agent as constructed
Init ==
    /\ messages = <<>>
    /\ state = "IDLE"
    /\ current_step = 0
    /\ next_step_prompt \in NextStepPrompts
    /\ tool_calls = <<>>
    /\ tool_choices \in {"none", "auto", "required"}
    /\ max_steps = MaxSteps
    /\ WebConstructed
    /\ recent_tools_used = <<>>
    /\ accuracy_issues_detected = 0
    /\ progress_file_initialized = FALSE
    /\ current_task_id = ""
    /\ completed_tasks = <<>>
    /\ created_files = <<>>
    /\ pc = "idle"
    /\ previous_state = "IDLE"
    /\ results = <<>>
    /\ step_result = <<>>
    /\ act_results = <<>>
    /\ act_idx = 0
    /\ cancel_event = FALSE
    /\ outcome = NoOutcome
    /\ obs = InitObs

TRACKER_ERROR == Lit("tracker failed")

\* run(request, cancel_event) is called on an agent no run of which is in
\* progress, with a fresh event; on the first request the progress file is
\* created and the initial task added to it
Run(request, init_out, task_out) ==
    /\ pc = "idle"
    /\ obs.runs < MaxRuns
    /\ ~RunEntry(state, messages, request).raised
    /\ messages' = RunEntry(state, messages, request).msgs
    /\ LET tracked == request /= <<>> /\ ~progress_file_initialized
       IN  /\ progress_file_initialized' =
                 IF tracked THEN _initialize_progress_tracking(init_out)
                 ELSE progress_file_initialized
           /\ current_task_id' =
                 IF tracked /\ ~Propagates(init_out)
                 THEN _add_task_to_progress_file(task_out, "initial_request",
                                                 current_task_id)
                 ELSE current_task_id
           /\ IF tracked /\ (Propagates(init_out) \/ Propagates(task_out))
              THEN /\ outcome' = [kind |-> "raised", value |-> TRACKER_ERROR]
                   /\ pc' = "idle"
                   /\ UNCHANGED <<state, previous_state>>
              ELSE /\ previous_state' = state
                   /\ state' = "RUNNING"
                   /\ outcome' = NoOutcome
                   /\ pc' = "loop"
           /\ obs' = [obs EXCEPT
                        !.runs = @ + 1, !.rejected = FALSE, !.iters = 0,
                        !.start_step = current_step, !.special = FALSE,
                        !.tracker = IF tracked
                                    THEN [point  |-> "init",
                                          failed |-> init_out /= "ok" \/ task_out /= "ok"]
                                    ELSE @]
    /\ results' = <<>>
    /\ step_result' = <<>>
    /\ cancel_event' = FALSE
    /\ UNCHANGED <<current_step, next_step_prompt, tool_calls, tool_choices, max_steps, web_vars,
                   recent_tools_used, accuracy_issues_detected, completed_tasks,
                   created_files, act_results, act_idx>>

\* run(request) is called while the agent is not IDLE, which is the case
\* while a first run() is suspended at the model request or at a tool
\* invocation: RuntimeError
RunRejected(request) ==
    /\ pc \in {"think", "act"}
    /\ RunEntry(state, messages, request).raised
    /\ messages' = RunEntry(state, messages, request).msgs
    /\ obs' = [obs EXCEPT !.rejected = TRUE]
    /\ UNCHANGED <<state, current_step, next_step_prompt, tool_calls, tool_choices, max_steps, web_vars,
                   recent_tools_used, accuracy_issues_detected,
                   progress_file_initialized, current_task_id,
                   completed_tasks, created_files, pc, previous_state, results, step_result,
                   act_results, act_idx, cancel_event, outcome>>

\* the owner of the event sets it while run() is suspended at the model
\* request; the event is read at the top of the next iteration only
SetCancel ==
    /\ pc = "think"
    /\ ~cancel_event
    /\ cancel_event' = TRUE
    /\ obs' = [obs EXCEPT !.rejected = FALSE]
    /\ UNCHANGED <<messages, state, current_step, next_step_prompt, tool_calls,
                   tool_choices, max_steps, web_vars, recent_tools_used, accuracy_issues_detected,
                   progress_file_initialized, current_task_id,
                   completed_tasks, created_files, pc, previous_state, results, step_result,
                   act_results, act_idx, outcome>>

\* the loop condition is false: the with block is left and run() returns
LoopExit ==
    /\ pc = "loop"
    /\ ~LoopCondition(current_step, state)
    /\ state' = state_context_exit(FALSE, state, previous_state)
    /\ outcome' = [kind |-> "returned", value |-> RunResult(current_step, results)]
    /\ pc' = "idle"
    /\ obs' = [obs EXCEPT !.rejected = FALSE]
    /\ UNCHANGED <<messages, current_step, next_step_prompt, tool_calls, tool_choices, max_steps, web_vars,
                   recent_tools_used, accuracy_issues_detected,
                   progress_file_initialized, current_task_id,
                   completed_tasks, created_files, previous_state, results, step_result,
                   act_results, act_idx, cancel_event>>

\* the cancellation check at the top of an iteration finds the event set
LoopCancelled ==
    /\ pc = "loop"
    /\ LoopCondition(current_step, state)
    /\ cancel_event
    /\ state' = state_context_exit(FALSE, state, previous_state)
    /\ outcome' = [kind |-> "returned", value |-> CANCELLED]
    /\ pc' = "idle"
    /\ obs' = [obs EXCEPT !.rejected = FALSE]
    /\ UNCHANGED <<messages, current_step, next_step_prompt, tool_calls, tool_choices, max_steps, web_vars,
                   recent_tools_used, accuracy_issues_detected,
                   progress_file_initialized, current_task_id,
                   completed_tasks, created_files, previous_state, results, step_result,
                   act_results, act_idx, cancel_event>>

\* an exception leaves the loop body: state_context, then run() raises
Raise(error) ==
    /\ state' = state_context_exit(TRUE, state, previous_state)
    /\ outcome' = [kind |-> "raised", value |-> error]
    /\ pc' = "idle"

\* an iteration starts: the step counter, the progress file's summary, the
\* accuracy monitor, then step() -> think() up to the model request
StepBegin(read_out, progress_summary) ==
    /\ pc = "loop"
    /\ LoopCondition(current_step, state)
    /\ ~cancel_event
    /\ current_step' = current_step + 1
    /\ IF progress_file_initialized /\ Propagates(read_out)
       THEN /\ Raise(TRACKER_ERROR)
            /\ UNCHANGED <<next_step_prompt, messages>>
            /\ obs' = [obs EXCEPT !.iters = @ + 1, !.rejected = FALSE,
                                  !.tracker = [point |-> "read", failed |-> TRUE]]
       ELSE /\ LET step    == current_step + 1
                   summary == _read_progress_file(read_out, progress_summary)
                   nsp1 == IF progress_file_initialized /\ summary /= <<>>
                           THEN AppendPrompt(next_step_prompt, prompt_addition(summary))
                           ELSE next_step_prompt
                   nsp2 == IF step % accuracy_monitor_interval = 0
                           THEN _monitor_accuracy(messages, step, accuracy_issues_detected,
                                                  recent_tools_used, nsp1)
                           ELSE nsp1
                   t    == ThinkPrompt(messages, step, nsp2)
               IN  /\ next_step_prompt' = t.nsp
                   /\ messages' = t.msgs
            /\ pc' = "think"
            /\ obs' = [obs EXCEPT
                         !.asks = @ + 1, !.iters = @ + 1, !.rejected = FALSE,
                         !.tracker = IF progress_file_initialized
                                     THEN [point |-> "read", failed |-> read_out /= "ok"]
                                     ELSE @]
            /\ UNCHANGED <<state, outcome>>
    /\ UNCHANGED <<tool_calls, tool_choices, max_steps, web_vars, recent_tools_used,
                   accuracy_issues_detected, progress_file_initialized,
                   current_task_id, completed_tasks, created_files,
                   previous_state, results, step_result, act_results, act_idx,
                   cancel_event>>

\* the model request raises
ThinkRaises ==
    /\ pc = "think"
    /\ Raise(MODEL_ERROR)
    /\ obs' = [obs EXCEPT !.model_errors = @ + 1, !.rejected = FALSE]
    /\ UNCHANGED <<messages, current_step, next_step_prompt, tool_calls, tool_choices, max_steps, web_vars,
                   recent_tools_used, accuracy_issues_detected,
                   progress_file_initialized, current_task_id,
                   completed_tasks, created_files, previous_state, results, step_result,
                   act_results, act_idx, cancel_event>>

\* the model answers; think() records the answer; step() goes on to act()
\* when think() returned true; act() without tool calls ends at once
ThinkReturns(content, calls) ==
    /\ pc = "think"
    /\ \E t \in {ThinkResponse(tool_choices, messages, content, calls)} :
           /\ tool_calls' = calls
           /\ messages' = t.msgs
           /\ obs' = [obs EXCEPT !.requested = @ + Len(calls), !.rejected = FALSE]
           /\ IF ~t.should_act
              THEN /\ step_result' = NO_ACTION
                   /\ pc' = "post"
                   /\ UNCHANGED <<state, outcome>>
              ELSE IF calls = <<>>
              THEN IF tool_choices = "required"
                   THEN /\ Raise(TOOL_CALL_REQUIRED)
                        /\ UNCHANGED step_result
                   ELSE /\ step_result' = IF t.msgs[Len(t.msgs)].content /= <<>>
                                          THEN t.msgs[Len(t.msgs)].content ELSE NO_CONTENT
                        /\ pc' = "post"
                        /\ UNCHANGED <<state, outcome>>
              ELSE /\ pc' = "act"
                   /\ UNCHANGED <<state, outcome, step_result>>
    /\ act_results' = <<>>
    /\ act_idx' = 1
    /\ UNCHANGED <<current_step, next_step_prompt, tool_choices, max_steps, web_vars, recent_tools_used,
                   accuracy_issues_detected, progress_file_initialized, current_task_id,
                   completed_tasks, created_files,
                   previous_state, results, cancel_event>>

ExecToolFinishingOnFailure(out) ==
    /\ pc = "act"
    /\ act_idx <= Len(tool_calls)
    /\ \E r \in {execute_tool(tool_calls[act_idx], out)} :
       LET command == tool_calls[act_idx]
           res     == Append(act_results, r.observation)
       IN  /\ state' = IF _is_special_tool(command.name) /\ command.name \in tool_map
                       THEN "FINISHED" ELSE state
           /\ messages' = add_message(messages,
                              tool_message(r.observation, command.name, command.id))
           /\ act_results' = res
           /\ act_idx' = act_idx + 1
           /\ IF act_idx = Len(tool_calls)
              THEN /\ step_result' = act_return(res)
                   /\ pc' = "post"
              ELSE UNCHANGED <<step_result, pc>>
           /\ obs' = [obs EXCEPT
                        !.invoked   = IF Invokes(command) THEN @ + 1 ELSE @,
                        !.completed = IF Invokes(command) /\ ~out.raises THEN @ + 1 ELSE @,
                        !.special   = @ \/ r.finished,
                        !.rejected  = FALSE]
    /\ UNCHANGED <<current_step, next_step_prompt, tool_calls, tool_choices, max_steps, web_vars,
                   recent_tools_used, accuracy_issues_detected,
                   progress_file_initialized, current_task_id,
                   completed_tasks, created_files, previous_state, results,
                   cancel_event, outcome>>

\* act(): one pass of the for loop - execute_tool on the next call, the tool
\* message, the result list; after the last call act() returns the joined
\* observations
ExecTool(out) ==
    /\ pc = "act"
    /\ act_idx <= Len(tool_calls)
    /\ \E r \in {execute_tool(tool_calls[act_idx], out)} :
       LET command == tool_calls[act_idx]
           res     == Append(act_results, r.observation)
       IN  /\ state' = IF r.finished THEN "FINISHED" ELSE state
           /\ messages' = add_message(messages,
                              tool_message(r.observation, command.name, command.id))
           /\ act_results' = res
           /\ act_idx' = act_idx + 1
           /\ IF act_idx = Len(tool_calls)
              THEN /\ step_result' = act_return(res)
                   /\ pc' = "post"
              ELSE UNCHANGED <<step_result, pc>>
           /\ obs' = [obs EXCEPT
                        !.invoked   = IF Invokes(command) THEN @ + 1 ELSE @,
                        !.completed = IF Invokes(command) /\ ~out.raises THEN @ + 1 ELSE @,
                        !.special   = @ \/ r.finished,
                        !.rejected  = FALSE]
    /\ UNCHANGED <<current_step, next_step_prompt, tool_calls, tool_choices, max_steps, web_vars,
                   recent_tools_used, accuracy_issues_detected,
                   progress_file_initialized, current_task_id,
                   completed_tasks, created_files, previous_state, results,
                   cancel_event, outcome>>

\* the rest of the loop body after step(): the files and the completed task
\* recorded in the progress file, the stuck check, the rolling window of
\* tool names and the step's entry in results
PostStep(file_out, task_out) ==
    /\ pc = "post"
    /\ LET files     == IF progress_file_initialized
                        THEN _detect_file_operations(step_result) ELSE <<>>
           completes == /\ progress_file_initialized
                        /\ _detect_task_completion(step_result)
                        /\ current_task_id /= ""
           completed == IF completes THEN Append(completed_tasks, current_task_id)
                        ELSE completed_tasks
           next_task_id == "task_" \o ToString(Len(completed) + 1)
       IN  /\ obs' = [obs EXCEPT
                        !.rejected = FALSE,
                        !.tracker  = IF files /= <<>> \/ completes
                                     THEN [point  |-> "post",
                                           failed |-> \/ files /= <<>> /\ file_out /= "ok"
                                                      \/ completes /\ task_out /= "ok"]
                                     ELSE @]
           /\ IF \/ files /= <<>> /\ Propagates(file_out)
                 \/ completes /\ Propagates(task_out)
              THEN /\ Raise(TRACKER_ERROR)
                   /\ UNCHANGED <<created_files, completed_tasks, current_task_id,
                                  accuracy_issues_detected, next_step_prompt,
                                  recent_tools_used, results>>
              ELSE /\ created_files' = created_files \o files
                   /\ completed_tasks' = completed
                   /\ current_task_id' =
                         IF completes
                         THEN _add_task_to_progress_file(task_out, next_task_id,
                                                         next_task_id)
                         ELSE current_task_id
                   /\ IF is_stuck(messages, recent_tools_used)
                      THEN LET h == handle_stuck_state(accuracy_issues_detected,
                                                       next_step_prompt)
                           IN  /\ accuracy_issues_detected' = h.issues
                               /\ next_step_prompt' = h.nsp
                      ELSE UNCHANGED <<accuracy_issues_detected, next_step_prompt>>
                   /\ recent_tools_used' = RecordTool(recent_tools_used, step_result)
                   /\ results' = Append(results, StepEntry(current_step, step_result))
                   /\ pc' = "loop"
                   /\ UNCHANGED <<state, outcome>>
    /\ UNCHANGED <<messages, current_step, tool_calls, tool_choices, max_steps, web_vars,
                   progress_file_initialized, previous_state, step_result,
                   act_results, act_idx, cancel_event>>

RunStep ==
    \/ LoopExit
    \/ LoopCancelled
    \/ \E progress_summary \in ProgressSummaries : StepBegin("ok", progress_summary)
    \/ ThinkRaises
    \/ \E content \in Contents :
           \E calls \in Batches(current_step, MaxCalls - obs.requested) :
               ThinkReturns(content, calls)
    \/ \E out \in ToolOutcomes : ExecTool(out)
    \/ PostStep("ok", "ok")

Next ==
    \/ \E request \in Requests :
           \E init_out \in {"ok", "error"} : Run(request, init_out, "ok")
    \/ \E request \in Requests : RunRejected(request)
    \/ SetCancel
    \/ RunStep

Spec == Init /\ [][Next]_vars

\* every model request, tool invocation and tracker call returns
FairSpec == Spec /\ WF_vars(RunStep)

-----------------------------------------------------------------------------
(* The agent with a progress tracker that may fail at each of its calls and
   a tool that saves files: "auto" mode, a model that always answers, calls
   of create_chat_completion only *)

SAVED == Lit("Content successfully saved to f in workspace")

TrackToolOutcomes == {[raises |-> FALSE, result |-> r] : r \in ToolResults \cup {SAVED}}

TrackBatches(step, room) ==
    {calls \in Batches(step, room) :
        \A i \in 1..Len(calls) :
            calls[i].name = "create_chat_completion" /\ calls[i].arguments = "{}"}

TrackInit == Init /\ tool_choices = "auto"

TrackNext ==
    \/ \E request \in Requests :
           \E init_out \in TrackerOutcomes, task_out \in TrackerOutcomes :
               Run(request, init_out, task_out)
    \/ LoopExit
    \/ \E read_out \in TrackerOutcomes :
           \E progress_summary \in ProgressSummaries :
               StepBegin(read_out, progress_summary)
    \/ \E calls \in TrackBatches(current_step, MaxCalls - obs.requested) :
           ThinkReturns(Lit("thought"), calls)
    \/ \E out \in TrackToolOutcomes : ExecTool(out)
    \/ \E file_out \in TrackerOutcomes, task_out \in TrackerOutcomes :
           PostStep(file_out, task_out)

TrackSpec == TrackInit /\ [][TrackNext]_vars

-----------------------------------------------------------------------------
(* Runs of several steps: an agent in "auto" mode constructed with a larger
   step budget, a model that requests one well-formed tool call per step and
   tools that return *)

MaxWindowSteps == 4     \* max_steps of the agent whose tool window is followed

\* the agent as constructed with max_steps = steps
Constructed(steps) ==
    /\ messages = <<>>
    /\ state = "IDLE"
    /\ current_step = 0
    /\ next_step_prompt \in NextStepPrompts
    /\ tool_calls = <<>>
    /\ tool_choices = "auto"
    /\ max_steps = steps
    /\ WebConstructed
    /\ recent_tools_used = <<>>
    /\ accuracy_issues_detected = 0
    /\ progress_file_initialized = FALSE
    /\ current_task_id = ""
    /\ completed_tasks = <<>>
    /\ created_files = <<>>
    /\ pc = "idle"
    /\ previous_state = "IDLE"
    /\ results = <<>>
    /\ step_result = <<>>
    /\ act_results = <<>>
    /\ act_idx = 0
    /\ cancel_event = FALSE
    /\ outcome = NoOutcome
    /\ obs = InitObs

\* one call of the tool name, the id numbered by step
OneCall(step, name) == <<[id |-> <<step, 1>>, name |-> name, arguments |-> "{}"]>>

\* the tool returns a text or nothing
ReturningOutcomes == {[raises |-> FALSE, result |-> r] : r \in ToolResults \cup {<<>>}}

WindowInit == Constructed(MaxWindowSteps)

WindowNext ==
    \/ \E init_out \in {"ok", "error"} : Run(Lit("request"), init_out, "ok")
    \/ LoopExit
    \/ \E progress_summary \in ProgressSummaries : StepBegin("ok", progress_summary)
    \/ \E name \in tool_map : ThinkReturns(Lit("thought"), OneCall(current_step, name))
    \/ \E out \in ReturningOutcomes : ExecTool(out)
    \/ PostStep("ok", "ok")

WindowSpec == WindowInit /\ [][WindowNext]_vars

MaxPromptSteps == 30      \* max_steps of the agent whose next-step prompt is followed

PromptInit == Constructed(MaxPromptSteps)

\* the model asks for the same tool in every step
PromptNext ==
    \/ \E init_out \in {"ok", "error"} : Run(Lit("request"), init_out, "ok")
    \/ LoopExit
    \/ \E progress_summary \in ProgressSummaries : StepBegin("ok", progress_summary)
    \/ ThinkReturns(Lit("thought"), OneCall(current_step, "create_chat_completion"))
    \/ \E out \in ToolOutcomes : ~out.raises /\ ExecTool(out)
    \/ PostStep("ok", "ok")

PromptSpec == PromptInit /\ [][PromptNext]_vars

-----------------------------------------------------------------------------
(* The buffer alone: add_message applied to an initially empty Memory *)

MemMessages ==
    LET texts == {<<>>, Lit("a"), Rep("x", 9000)}
        call  == <<[id |-> <<0, 1>>, name |-> "terminate", arguments |-> "{}"]>>
        \* the observation of a tool that printed one long line and blank lines
        output == Cat3(Cat(Lit("Observed output of cmd ^terminate^ executed:"), NL),
                       Rep("x", 9000), Rep("\n", 5))
    IN  {user_message(c) : c \in texts}
        \cup {system_message(c) : c \in texts}
        \cup {assistant_message(c) : c \in texts}
        \cup {from_tool_calls(call, c) : c \in texts}
        \cup {tool_message(c, "terminate", <<0, 1>>) : c \in texts \cup {output}}

MemInit ==
    /\ messages = <<>>
    /\ state = "IDLE"
    /\ current_step = 0
    /\ next_step_prompt = <<>>
    /\ tool_calls = <<>>
    /\ tool_choices = "auto"
    /\ max_steps = MaxSteps
    /\ WebConstructed
    /\ recent_tools_used = <<>>
    /\ accuracy_issues_detected = 0
    /\ progress_file_initialized = FALSE
    /\ current_task_id = ""
    /\ completed_tasks = <<>>
    /\ created_files = <<>>
    /\ pc = "mem"
    /\ previous_state = "IDLE"
    /\ results = <<>>
    /\ step_result = <<>>
    /\ act_results = <<>>
    /\ act_idx = 0
    /\ cancel_event = FALSE
    /\ outcome = NoOutcome
    /\ obs = InitObs

AddMessage(message) ==
    /\ pc = "mem"
    /\ obs.adds < MaxAdds
    /\ messages' = add_message(messages, message)
    /\ obs' = [obs EXCEPT !.adds = @ + 1,
                          !.merged = Len(messages) > 0
                                     /\ messages[Len(messages)].role = message.role,
                          !.before = Coalesce(messages, message),
                          !.inserted = <<message>>]
    /\ UNCHANGED <<state, current_step, next_step_prompt, tool_calls, tool_choices, max_steps, web_vars,
                   recent_tools_used, accuracy_issues_detected,
                   progress_file_initialized, current_task_id,
                   completed_tasks, created_files, pc, previous_state, results,
                   step_result, act_results, act_idx, cancel_event, outcome>>

MemNext == \E message \in MemMessages : AddMessage(message)

MemSpec == MemInit /\ [][MemNext]_vars

-----------------------------------------------------------------------------
(* The buffer alone: user and assistant turns added in alternation *)

MaxTurns == 101     \* add_message calls in an alternating behaviour

\* Memory.max_messages
max_messages == 100

CapInit ==
    /\ messages = <<>>
    /\ state = "IDLE"
    /\ current_step = 0
    /\ next_step_prompt = <<>>
    /\ tool_calls = <<>>
    /\ tool_choices = "auto"
    /\ max_steps = MaxSteps
    /\ WebConstructed
    /\ recent_tools_used = <<>>
    /\ accuracy_issues_detected = 0
    /\ progress_file_initialized = FALSE
    /\ current_task_id = ""
    /\ completed_tasks = <<>>
    /\ created_files = <<>>
    /\ pc = "cap"
    /\ previous_state = "IDLE"
    /\ results = <<>>
    /\ step_result = <<>>
    /\ act_results = <<>>
    /\ act_idx = 0
    /\ cancel_event = FALSE
    /\ outcome = NoOutcome
    /\ obs = InitObs

\* add_message with a turn of the role the last turn does not have
AddTurn(role, text) ==
    /\ pc = "cap"
    /\ obs.adds < MaxTurns
    /\ Len(messages) > 0 => messages[Len(messages)].role /= role
    /\ LET message == IF role = "user" THEN user_message(text)
                                       ELSE assistant_message(text)
       IN  /\ messages' = add_message(messages, message)
           /\ obs' = [obs EXCEPT !.adds = @ + 1,
                                 !.before = Coalesce(messages, message),
                                 !.inserted = <<message>>]
    /\ UNCHANGED <<state, current_step, next_step_prompt, tool_calls, tool_choices, max_steps, web_vars,
                   recent_tools_used, accuracy_issues_detected,
                   progress_file_initialized, current_task_id,
                   completed_tasks, created_files, pc, previous_state, results,
                   step_result, act_results, act_idx, cancel_event, outcome>>

CapNext == \E role \in {"user", "assistant"} : AddTurn(role, Lit("a"))

CapSpec == CapInit /\ [][CapNext]_vars

-----------------------------------------------------------------------------
(* The buffer alone: the behaviours of MemSpec, and alternating user and
   assistant turns with assistant texts short or long *)

MaxLong == 16       \* add_message calls in a behaviour with long texts

LongNext ==
    /\ obs.adds < MaxLong
    /\ \/ AddTurn("user", Lit("a"))
       \/ \E text \in {Lit("a"), Rep("x", 3000)} : AddTurn("assistant", text)

EvictSpec == (MemInit \/ CapInit) /\ [][MemNext \/ LongNext]_vars

-----------------------------------------------------------------------------
(* is_stuck and handle_stuck_state alone (app/agent/base.py): a buffer built
   by add_message, a window of tool names built by the recording at the end
   of the loop body, then the check of the loop body, repeated *)

MaxStuckTurns == 8  \* turns of the buffer is_stuck is applied to
MaxDetections == 3  \* handle_stuck_state calls in a behaviour

StuckTurns ==
    {user_message(Lit("next step")),
     assistant_message(Lit("thought")),
     assistant_message(Lit("other")),
     assistant_message(<<>>),
     tool_message(Lit("Error: Unknown tool 'x'"), "x", <<0, 1>>)}

RECURSIVE Recorded(_)
\* recent_tools_used after the steps whose results are given, oldest first
Recorded(step_results) ==
    IF step_results = <<>> THEN <<>>
    ELSE RecordTool(Recorded(SubSeq(step_results, 1, Len(step_results) - 1)),
                    step_results[Len(step_results)])

\* the result of a step that ran one tool
Ran(name) == execute_tool([id |-> <<0, 1>>, name |-> name, arguments |-> "{}"],
                          [raises |-> FALSE, result |-> Lit("ok")]).observation

StuckWindows ==
    LET c == Ran("create_chat_completion")
        t == Ran("terminate")
    IN  {Recorded(<<>>), Recorded(<<c, c>>), Recorded(<<c, c, c>>),
         Recorded(<<t, c, c>>), Recorded(<<t, c, c, c, c, c>>)}

StuckInit ==
    /\ messages = <<>>
    /\ state = "RUNNING"
    /\ current_step = 1
    /\ next_step_prompt \in {<<>>} \cup NextStepPrompts
    /\ tool_calls = <<>>
    /\ tool_choices = "auto"
    /\ max_steps = MaxSteps
    /\ WebConstructed
    /\ recent_tools_used \in StuckWindows
    /\ accuracy_issues_detected = 0
    /\ progress_file_initialized = FALSE
    /\ current_task_id = ""
    /\ completed_tasks = <<>>
    /\ created_files = <<>>
    /\ pc = "stuck"
    /\ previous_state = "IDLE"
    /\ results = <<>>
    /\ step_result = <<>>
    /\ act_results = <<>>
    /\ act_idx = 0
    /\ cancel_event = FALSE
    /\ outcome = NoOutcome
    /\ obs = InitObs

\* add_message with a turn of a role the last turn does not have
StuckTurn(message) ==
    /\ pc = "stuck"
    /\ Len(messages) < MaxStuckTurns
    /\ Len(messages) > 0 => messages[Len(messages)].role /= message.role
    /\ messages' = add_message(messages, message)
    /\ obs' = [obs EXCEPT !.adds = @ + 1]
    /\ UNCHANGED <<state, current_step, next_step_prompt, tool_calls, tool_choices, max_steps, web_vars,
                   recent_tools_used, accuracy_issues_detected,
                   progress_file_initialized, current_task_id,
                   completed_tasks, created_files, pc, previous_state, results,
                   step_result, act_results, act_idx, cancel_event, outcome>>

\* is_stuck() is called; its return value is kept in outcome
CheckStuck ==
    /\ pc \in {"stuck", "handled"}
    /\ outcome' = [kind |-> "is_stuck", value |-> is_stuck(messages, recent_tools_used)]
    /\ pc' = "checked"
    /\ UNCHANGED <<messages, state, current_step, next_step_prompt, tool_calls,
                   tool_choices, max_steps, web_vars, recent_tools_used, accuracy_issues_detected,
                   progress_file_initialized, current_task_id,
                   completed_tasks, created_files, previous_state, results, step_result,
                   act_results, act_idx, cancel_event, obs>>

\* is_stuck() returned true: handle_stuck_state() is called
HandleStuck ==
    /\ pc = "checked"
    /\ outcome.value
    /\ accuracy_issues_detected < MaxDetections
    /\ LET h == handle_stuck_state(accuracy_issues_detected, next_step_prompt)
       IN  /\ accuracy_issues_detected' = h.issues
           /\ next_step_prompt' = h.nsp
    /\ pc' = "handled"
    /\ UNCHANGED <<messages, state, current_step, tool_calls, tool_choices, max_steps, web_vars,
                   recent_tools_used, progress_file_initialized, current_task_id,
                   completed_tasks, created_files, previous_state,
                   results, step_result, act_results, act_idx, cancel_event,
                   outcome, obs>>

StuckNext ==
    \/ \E message \in StuckTurns : StuckTurn(message)
    \/ CheckStuck
    \/ HandleStuck

StuckSpec == StuckInit /\ [][StuckNext]_vars

-----------------------------------------------------------------------------
(* The accuracy monitor alone (app/agent/base.py): the steps 21 to 100 of a
   run with the default max_steps, on a buffer above the monitor's
   thresholds, for each number of stuck detections *)

MaxMonitorStep == 100   \* the last step of the monitored run
MaxIssues      == 6     \* stuck detections before the monitored steps

\* five turns, 6009 characters
MonitorBuffer ==
    <<user_message(Lit("request")), assistant_message(Rep("x", 3000)),
      user_message(Lit("a")), assistant_message(Rep("x", 3000)),
      user_message(Lit("a"))>>

MonitorInit ==
    /\ messages = MonitorBuffer
    /\ state = "RUNNING"
    /\ current_step = 20
    /\ next_step_prompt = <<>>
    /\ tool_calls = <<>>
    /\ tool_choices = "auto"
    /\ max_steps = MaxSteps
    /\ WebConstructed
    /\ recent_tools_used = <<>>
    /\ accuracy_issues_detected \in 0..MaxIssues
    /\ progress_file_initialized = FALSE
    /\ current_task_id = ""
    /\ completed_tasks = <<>>
    /\ created_files = <<>>
    /\ pc = "monitor"
    /\ previous_state = "IDLE"
    /\ results = <<>>
    /\ step_result = <<>>
    /\ act_results = <<>>
    /\ act_idx = 0
    /\ cancel_event = FALSE
    /\ outcome = NoOutcome
    /\ obs = InitObs

\* the top of an iteration: the step counter and, every
\* accuracy_monitor_interval steps, _monitor_accuracy
MonitorStep ==
    /\ pc = "monitor"
    /\ current_step < MaxMonitorStep
    /\ LET step == current_step + 1
           nsp  == IF step % accuracy_monitor_interval = 0
                   THEN _monitor_accuracy(messages, step, accuracy_issues_detected,
                                          recent_tools_used, next_step_prompt)
                   ELSE next_step_prompt
       IN  /\ current_step' = step
           /\ next_step_prompt' = nsp
           /\ obs' = [obs EXCEPT !.synth = IF nsp /= next_step_prompt
                                           THEN @ \cup {step} ELSE @]
    /\ UNCHANGED <<messages, state, tool_calls, tool_choices, max_steps, web_vars, recent_tools_used,
                   accuracy_issues_detected, progress_file_initialized, current_task_id,
                   completed_tasks, created_files, pc,
                   previous_state, results, step_result, act_results, act_idx,
                   cancel_event, outcome>>

MonitorSpec == MonitorInit /\ [][MonitorStep]_vars

-----------------------------------------------------------------------------
(* ThinkingTracker (app/web/thinking_tracker.py).  Every method runs its
   body inside "with cls._lock".  _lock is a threading.Lock, which is not
   reentrant: acquire() blocks while the lock is held, whoever holds it.
   A thread is a stack of frames [fn, at, level]: the method, the position
   in it ("lock": about to enter the with block, "body": inside it,
   "called": waiting for a method called inside it, "unlock": about to leave
   it, "after": behind it) and the level of the log entry being added. *)

MaxLogEntries == 2  \* add_log_entry calls for the session

Levels == {"INFO", "WARNING", "ERROR", "DEBUG"}

Frame(fn, level) == [fn |-> fn, at |-> "lock", level |-> level]

Running(t) == stack[t] /= <<>>

Top(t) == stack[t][Len(stack[t])]

At(t, fn, at) == Running(t) /\ Top(t).fn = fn /\ Top(t).at = at

\* the top frame of t moves to position at
Move(t, at) == [stack EXCEPT ![t][Len(stack[t])].at = at]

\* the top frame of t moves to position at and calls fn
Push(t, at, fn) ==
    [stack EXCEPT ![t] = Append([@ EXCEPT ![Len(@)].at = at],
                                Frame(fn, Top(t).level))]

\* the top frame of t returns to its caller
Return(t) ==
    LET callee == Top(t)
        rest   == SubSeq(stack[t], 1, Len(stack[t]) - 1)
        caller == rest[Len(rest)]
    IN  [stack EXCEPT ![t] =
            IF rest = <<>> THEN <<>>
            \* add_log_entry ends with its call of _notify_ws_log_update
            ELSE IF caller.at = "notified" THEN SubSeq(rest, 1, Len(rest) - 1)
            \* add_log_entry, INFO: _detect_and_add_tool_usage comes next
            ELSE IF /\ caller.fn = "add_log_entry"
                    /\ callee.fn = "add_thinking_step"
                    /\ caller.level = "INFO"
                 THEN [rest EXCEPT ![Len(rest)].at = "detect"]
            ELSE [rest EXCEPT ![Len(rest)].at = "unlock"]]

\* thread t calls fn
Enter(t, fn, level) ==
    /\ stack' = [stack EXCEPT ![t] = <<Frame(fn, level)>>]
    /\ UNCHANGED <<_lock, _ws_send_callbacks, _session_logs, _session_steps,
                   _session_status, session_vars, agent_vars>>

start_tracking(t) ==
    /\ ~Running(t)
    /\ Enter(t, "start_tracking", "")

register_ws_send_callback(t) ==
    /\ ~Running(t)
    /\ Enter(t, "register_ws_send_callback", "")

unregister_ws_send_callback(t) ==
    /\ ~Running(t)
    /\ Enter(t, "unregister_ws_send_callback", "")

mark_stopped(t) ==
    /\ ~Running(t)
    /\ Enter(t, "mark_stopped", "")

add_log_entry(t, level) ==
    /\ ~Running(t)
    /\ _session_logs < MaxLogEntries
    /\ Enter(t, "add_log_entry", level)

\* "with cls._lock:" is entered: threading.Lock.acquire()
Acquire(t) ==
    /\ Running(t)
    /\ Top(t).at = "lock"
    /\ _lock = "free"
    /\ _lock' = t
    /\ stack' = Move(t, "body")
    /\ UNCHANGED <<_ws_send_callbacks, _session_logs, _session_steps,
                   _session_status, session_vars, agent_vars>>

\* the statements inside the with block, up to the next call or its end
Body(t) ==
    /\ Running(t)
    /\ Top(t).at \in {"body", "detect"}
    /\ LET fn == Top(t).fn
           tracked == _session_status /= ""
       IN  /\ _ws_send_callbacks' =
                 IF fn = "register_ws_send_callback" THEN TRUE
                 ELSE IF fn = "unregister_ws_send_callback" THEN FALSE
                 ELSE _ws_send_callbacks
           /\ _session_logs' =
                 IF fn = "add_log_entry" /\ Top(t).at = "body"
                 THEN _session_logs + 1 ELSE _session_logs
           /\ _session_steps' =
                 IF fn = "start_tracking" THEN 0
                 ELSE IF fn \in {"add_thinking_step", "add_error"} /\ tracked
                 THEN _session_steps + 1
                 ELSE _session_steps
           /\ _session_status' =
                 IF fn = "start_tracking" THEN "thinking"
                 ELSE IF fn = "add_error" /\ tracked THEN "error"
                 ELSE IF fn = "mark_stopped" /\ tracked THEN "stopped"
                 ELSE _session_status
           /\ \/ /\ fn = "add_log_entry"
                 /\ Top(t).at = "body"
                 /\ stack' =
                       IF Top(t).level \in {"INFO", "WARNING"}
                       THEN Push(t, "called", "add_thinking_step")
                       ELSE IF Top(t).level = "ERROR"
                       THEN Push(t, "called", "add_error")
                       ELSE Move(t, "unlock")
              \/ /\ fn = "add_log_entry"
                 /\ Top(t).at = "detect"
                 /\ \/ stack' = Push(t, "called", "add_tool_usage")
                    \/ stack' = Move(t, "unlock")
              \/ /\ fn = "_notify_ws_log_update"
                 /\ stack' = IF _ws_send_callbacks
                             THEN Push(t, "called", "get_status")
                             ELSE Move(t, "unlock")
              \/ /\ fn \notin {"add_log_entry", "_notify_ws_log_update"}
                 /\ stack' = Move(t, "unlock")
    /\ UNCHANGED <<_lock, session_vars, agent_vars>>

\* the with block is left: threading.Lock.release(); every method but
\* add_log_entry then returns
Release(t) ==
    /\ Running(t)
    /\ Top(t).at = "unlock"
    /\ _lock' = "free"
    /\ stack' = IF Top(t).fn = "add_log_entry" THEN Move(t, "after")
                ELSE Return(t)
    /\ UNCHANGED <<_ws_send_callbacks, _session_logs, _session_steps,
                   _session_status, session_vars, agent_vars>>

\* add_log_entry, behind its with block: cls._notify_ws_log_update(...)
Notify(t) ==
    /\ At(t, "add_log_entry", "after")
    /\ stack' = Push(t, "notified", "_notify_ws_log_update")
    /\ UNCHANGED <<_lock, _ws_send_callbacks, _session_logs, _session_steps,
                   _session_status, session_vars, agent_vars>>

LockInit == Constructed(MaxSteps)

LockNext ==
    \E t \in Threads :
        \/ start_tracking(t)
        \/ register_ws_send_callback(t)
        \/ unregister_ws_send_callback(t)
        \/ mark_stopped(t)
        \/ \E level \in Levels : add_log_entry(t, level)
        \/ Acquire(t)
        \/ Body(t)
        \/ Release(t)
        \/ Notify(t)

LockSpec == LockInit /\ [][LockNext]_vars

-----------------------------------------------------------------------------
(* A chat session of the web application (app/web/app.py): POST /api/chat
   schedules process_prompt, which runs the agent; POST /api/chat/{id}/stop
   may arrive whenever the event loop is free, that is before the task has
   started, after it has ended, and while the task is suspended inside
   run() at the model request or at a tool invocation.  No one else uses
   the tracker here, so its lock is free at each of process_prompt's calls. *)

STOPPED_BY_USER == Rep("J", 18)

ERROR_OCCURRED(error) == Cat(Cat(Rep("J", 10), Lit(": ")), error)

\* POST /api/chat: the session's entry, its event, the background task
create_chat_session ==
    /\ web_pc = "none"
    /\ active_sessions' = [status |-> "processing", result |-> <<>>]
    /\ cancel_events' = "clear"
    /\ web_pc' = "scheduled"
    /\ UNCHANGED <<tracker_vars, agent_vars>>

\* process_prompt from its start to the check of the event: the task ends
\* there if the event is set, and is about to call run() otherwise
process_prompt_start ==
    /\ web_pc = "scheduled"
    /\ _session_steps' = 2
    /\ IF cancel_events = "set"
       THEN /\ _session_status' = "stopped"
            /\ active_sessions' = [status |-> "stopped", result |-> STOPPED_BY_USER]
            /\ cancel_events' = "absent"
            /\ web_pc' = "done"
       ELSE /\ _session_status' = "thinking"
            /\ web_pc' = "run"
            /\ UNCHANGED <<active_sessions, cancel_events>>
    /\ UNCHANGED <<_lock, stack, _ws_send_callbacks, _session_logs, agent_vars>>

\* result = await enhanced_agent.run(prompt): run() gets no event
process_prompt_run(init_out) ==
    /\ web_pc = "run"
    /\ obs.runs = 0
    /\ Run(Lit("request"), init_out, "ok")

\* run() has returned or raised: the session's entry is written and the
\* finally block removes the event
process_prompt_end ==
    /\ web_pc = "run"
    /\ obs.runs = 1
    /\ pc = "idle"
    /\ active_sessions' =
          IF outcome.kind = "returned"
          THEN [status |-> "completed", result |-> outcome.value]
          ELSE [status |-> "error", result |-> ERROR_OCCURRED(outcome.value)]
    /\ _session_status' = IF outcome.kind = "returned" THEN _session_status
                          ELSE "error"
    /\ _session_steps' = IF outcome.kind = "returned" THEN _session_steps
                         ELSE _session_steps + 1
    /\ cancel_events' = "absent"
    /\ web_pc' = "done"
    /\ UNCHANGED <<_lock, stack, _ws_send_callbacks, _session_logs, agent_vars>>

\* POST /api/chat/{session_id}/stop
stop_processing ==
    /\ \/ web_pc \in {"scheduled", "done"}
       \/ web_pc = "run" /\ pc \in {"think", "act"}
    /\ cancel_events' = IF cancel_events /= "absent" THEN "set" ELSE cancel_events
    /\ active_sessions' = [status |-> "stopped", result |-> STOPPED_BY_USER]
    /\ UNCHANGED <<web_pc, tracker_vars, agent_vars>>

SessionInit == Constructed(MaxSteps)

SessionNext ==
    \/ create_chat_session
    \/ process_prompt_start
    \/ \E init_out \in {"ok", "error"} : process_prompt_run(init_out)
    \/ LoopExit
    \/ \E progress_summary \in ProgressSummaries : StepBegin("ok", progress_summary)
    \/ ThinkRaises
    \/ \E content \in Contents :
           \E calls \in Batches(current_step, MaxCalls - obs.requested) :
               ThinkReturns(content, calls)
    \/ \E out \in ToolOutcomes : ExecTool(out)
    \/ PostStep("ok", "ok")
    \/ process_prompt_end
    \/ stop_processing

SessionSpec == SessionInit /\ [][SessionNext]_vars

-----------------------------------------------------------------------------
(* Properties *)

\* C1: for every sequence of add_message calls on an initially empty Memory,
\* after each call no two adjacent turns of the buffer have the same role.
C1_CoalescingInvariant == Alternating(messages)

\* an insertion has been merged into a same-role last turn of a longer buffer
C1_Witness == obs.merged /\ obs.adds >= 3 /\ Len(messages) >= 2

\* C2: at every point of a run - also right after think() has recorded the
\* pending next-step instruction behind the initial user request - no two
\* adjacent turns of the buffer have the same role.
C2_RunBufferAlternating == obs.runs > 0 => Alternating(messages)

\* C3: in every run and across successive runs on one agent, current_step
\* never decreases and never exceeds max_steps.
C3_StepMonotoneBounded ==
    [][current_step' >= current_step /\ current_step' <= max_steps]_vars

\* a second run on the agent executes the step numbered max_steps
C3_Witness == obs.runs = 2 /\ pc = "think" /\ current_step = max_steps

\* C4: when every model request and tool invocation returns, a run() started
\* from IDLE exits after at most max_steps - current_step iterations, with no
\* special tool selected and no cancellation needed.
C4_RunTerminates ==
    /\ [][obs'.iters <= max_steps - obs'.start_step]_vars
    /\ (pc /= "idle") ~> (pc = "idle")

\* a run has left the loop on the step budget alone, after max_steps iterations
C4_Witness ==
    /\ pc = "idle" /\ outcome.kind = "returned"
    /\ obs.iters = max_steps /\ ~obs.special /\ ~cancel_event

\* C5: when an exception leaves the loop body, run() re-raises it and the
\* state seen after run() is ERROR, not the pre-run IDLE.
C5_ErrorStateKept == (pc = "idle" /\ outcome.kind = "raised") => state = "ERROR"

\* C6: after a run in which a special tool was executed the state is still
\* FINISHED once run() has returned (so that a second run() is refused).
C6_FinishedStateKept == (pc = "idle" /\ obs.special) => state = "FINISHED"

\* C7: run() called while the state is not IDLE raises before doing anything:
\* state, current_step and the buffer (also when a request is passed) are
\* unchanged and no model request is made.
C7_RejectedRunChangesNothing ==
    [][(obs'.rejected /\ ~obs.rejected) =>
          /\ state /= "IDLE"
          /\ UNCHANGED <<messages, state, current_step, next_step_prompt,
                         tool_calls, pc, results, outcome>>
          /\ obs'.asks = obs.asks]_vars

\* run() was refused while a first run was RUNNING with a non-empty buffer
C7_Witness == obs.rejected /\ state = "RUNNING" /\ Len(messages) > 0

\* C8: if the cancellation event is set when the top of an iteration checks
\* it, run() returns the cancellation sentinel at once: current_step is not
\* incremented, no model request and no tool invocation is made, and the
\* state is IDLE after the return, never ERROR.
C8_CancelReturnsAtLoopTop ==
    [][(pc = "loop" /\ cancel_event
        /\ current_step < max_steps /\ state /= "FINISHED") =>
          /\ pc' = "idle"
          /\ outcome' = [kind |-> "returned", value |-> CANCELLED]
          /\ current_step' = current_step
          /\ obs'.asks = obs.asks
          /\ obs'.invoked = obs.invoked
          /\ state' = "IDLE"]_vars

\* a run that had executed a step returned the cancellation sentinel
C8_Witness ==
    /\ pc = "idle" /\ outcome = [kind |-> "returned", value |-> CANCELLED]
    /\ current_step >= 1 /\ current_step < max_steps /\ state = "IDLE"

\* C9: when a call of an act() batch names a special tool and executes, the
\* state is FINISHED right after that call; the later calls of the batch are
\* still executed and their observations recorded; and no further model
\* request is made in that run.
C9_SpecialToolFinishes ==
    /\ [][(pc = "act" /\ obs'.completed > obs.completed
           /\ _is_special_tool(tool_calls[act_idx].name)) => state' = "FINISHED"]_vars
    /\ []((state = "FINISHED" /\ pc \in {"post", "loop"}) =>
             /\ Len(act_results) = Len(tool_calls)
             /\ messages[Len(messages)].role = "tool"
             /\ messages[Len(messages)].content = Join(act_results, NL))
    /\ [][state = "FINISHED" => obs'.asks = obs.asks]_vars

\* a batch of two calls whose first call, a special tool, executed: the second
\* call has been executed too
C9_Witness ==
    /\ state = "FINISHED" /\ pc = "post"
    /\ Len(tool_calls) = 2 /\ Len(act_results) = 2
    /\ _is_special_tool(tool_calls[1].name)
    /\ StartsWith(act_results[1], "Observed output of cmd")

\* C10: if the model request made by think() raises, the exception does not
\* propagate: think() appends an assistant-role error turn and returns false,
\* the state does not become ERROR and the run goes on.
C10_ModelErrorCaught ==
    [][obs'.model_errors > obs.model_errors =>
          /\ outcome'.kind /= "raised"
          /\ pc' = "post"
          /\ state' = "RUNNING"
          /\ Len(messages') > 0
          /\ messages'[Len(messages')].role = "assistant"]_vars

\* C11: if a tool invoked by act() raises, no exception leaves act(): the
\* call's observation starts with "Error:", the buffer then ends with a
\* tool-role turn carrying it, the state is not changed (so not ERROR), act()
\* stays in its loop until every call of the batch has an observation, and
\* the step then ends normally with the run still going.
C11_ToolErrorContained ==
    /\ [][(pc = "act" /\ obs'.invoked > obs.invoked /\ obs'.completed = obs.completed) =>
             /\ StartsWith(act_results'[Len(act_results')], "Error:")
             /\ messages'[Len(messages')].role = "tool"
             /\ LET text        == messages'[Len(messages')].content
                    observation == act_results'[Len(act_results')]
                IN  TLast(text, TLen(observation)) = observation
             /\ state' = state /\ state' /= "ERROR"
             /\ outcome' = NoOutcome
             /\ pc' = IF act_idx < Len(tool_calls) THEN "act" ELSE "post"]_vars
    /\ []((pc = "post" /\ act_idx > 1) =>
             /\ Len(act_results) = Len(tool_calls)
             /\ outcome = NoOutcome
             /\ state \in {"RUNNING", "FINISHED"})

\* the first call of a batch of two raised, the second was executed, and the
\* run has gone on to the model request of the next step
C11_Witness ==
    /\ pc = "think" /\ current_step = 2 /\ state = "RUNNING"
    /\ Len(tool_calls) = 2 /\ Len(act_results) = 2
    /\ StartsWith(act_results[1], "Error: JJ Tool")
    /\ StartsWith(act_results[2], "Observed output of cmd")

\* C12: for a tool call whose name is not in the tool registry, or whose
\* arguments are not valid JSON, the tool callable is not invoked and no
\* exception leaves act(): the observation starts with "Error:", the buffer
\* then ends with a tool-role turn carrying it, and act() goes on with the
\* next call of the batch.
C12_BadCallNotInvoked ==
    [][(/\ pc = "act" /\ act_idx' = act_idx + 1
        /\ \/ tool_calls[act_idx].name \notin tool_map
           \/ tool_calls[act_idx].arguments \notin {"", "{}"}) =>
          /\ obs'.invoked = obs.invoked
          /\ StartsWith(act_results'[act_idx], "Error:")
          /\ Len(act_results') = act_idx
          /\ messages'[Len(messages')].role = "tool"
          /\ LET text        == messages'[Len(messages')].content
                 observation == act_results'[act_idx]
             IN  TLast(text, TLen(observation)) = observation
          /\ outcome' = NoOutcome /\ state' = state
          /\ pc' = IF act_idx < Len(tool_calls) THEN "act" ELSE "post"]_vars

\* a batch of an unregistered tool and a call with malformed arguments: both
\* have their error observation and no tool was invoked
C12_Witness ==
    /\ pc = "post" /\ Len(tool_calls) = 2 /\ Len(act_results) = 2
    /\ tool_calls[1].name \notin tool_map
    /\ tool_calls[2].name \in tool_map /\ tool_calls[2].arguments = "{"
    /\ StartsWith(act_results[1], "Error: Unknown tool")
    /\ StartsWith(act_results[2], "Error: Error parsing arguments")
    /\ obs.invoked = 0

\* C13: under tool_choices = "required", when the model's response holds no
\* tool call, think() records the assistant turn and returns true, and the
\* act() that follows raises the tool-call-required error: the run raises
\* it, no tool is invoked and no tool-role turn is appended.
C13_RequiredWithoutCalls ==
    [][(/\ pc = "think" /\ pc' /= "think"
        /\ tool_choices = "required"
        /\ obs'.model_errors = obs.model_errors
        /\ tool_calls' = <<>>) =>
          /\ outcome' = [kind |-> "raised", value |-> TOOL_CALL_REQUIRED]
          /\ pc' = "idle"
          /\ obs'.invoked = obs.invoked
          /\ Len(messages') = Len(messages) + 1
          /\ SubSeq(messages', 1, Len(messages)) = messages
          /\ messages'[Len(messages')].role = "assistant"]_vars

\* a run under "required" ended by the tool-call-required error
C13_Witness ==
    /\ pc = "idle" /\ tool_choices = "required"
    /\ outcome = [kind |-> "raised", value |-> TOOL_CALL_REQUIRED]
    /\ tool_calls = <<>> /\ obs.asks >= 1
    /\ messages[Len(messages)].role = "assistant"

\* C14: under tool_choices = "none" a model response that contains tool
\* calls never causes a tool to be invoked nor a tool-role turn to be added
\* to the buffer.
C14_NoneNeverActs ==
    tool_choices = "none" =>
        /\ obs.invoked = 0
        /\ \A i \in 1..Len(messages) : messages[i].role /= "tool"

\* C15: act() handles the requested tool calls one at a time in request
\* order: each pass of its loop takes the next call, invokes at most that one
\* tool, and adds its observation to the buffer and to the end of the result
\* list before the next call is started; when act() is done the observations
\* stand in the buffer in request order and the value returned is the
\* observations in that order with a blank line between them.
C15_ActInRequestOrder ==
    /\ [][(pc = "act" /\ act_idx' /= act_idx) =>
             /\ act_idx' = act_idx + 1
             /\ act_results' = Append(act_results, act_results'[act_idx])
             /\ \E i \in 1..Len(act_results'[act_idx]) :
                    act_results'[act_idx][i].s = tool_calls[act_idx].name
             /\ obs'.invoked - obs.invoked \in {0, 1}
             /\ messages'[Len(messages')].role = "tool"
             /\ LET text        == messages'[Len(messages')].content
                    observation == act_results'[act_idx]
                IN  TLast(text, TLen(observation)) = observation]_vars
    /\ []((pc = "post" /\ act_idx > 1) =>
             LET k == Len(tool_calls)
                 joined[i \in 1..k] ==
                     IF i = 1 THEN act_results[1]
                     ELSE Cat3(joined[i - 1], Rep("\n", 2), act_results[i])
                 lines[i \in 1..k] ==
                     IF i = 1 THEN act_results[1]
                     ELSE Cat3(lines[i - 1], NL, act_results[i])
             IN  /\ Len(act_results) = k
                 /\ step_result = joined[k]
                 /\ messages[Len(messages)].role = "tool"
                 /\ messages[Len(messages)].content = lines[k])

\* act() has run two calls of different tools, both invoked
C15_Witness ==
    /\ pc = "post" /\ Len(tool_calls) = 2 /\ Len(act_results) = 2
    /\ tool_calls[1].name = "create_chat_completion"
    /\ tool_calls[2].name = "terminate"
    /\ obs.invoked = 2
    /\ act_results[1] /= act_results[2]

\* C16: after act() has processed a batch of tool calls, for every call of
\* the batch the buffer holds a tool-role turn whose tool_call_id and name
\* are that call's id and tool name.
C16_EachCallHasLinkedTurn ==
    (pc = "post" /\ act_idx > 1) =>
        \A i \in 1..Len(tool_calls) :
            \E j \in 1..Len(messages) :
                /\ messages[j].role = "tool"
                /\ messages[j].tool_call_id = tool_calls[i].id
                /\ messages[j].name = tool_calls[i].name

\* C17: at every point of every run, under each tool_choices policy, every
\* tool-role turn of the buffer carries a tool_call_id that occurs in the
\* tool_calls of an assistant turn standing earlier in the buffer.
C17_ToolTurnsLinked ==
    \A j \in 1..Len(messages) :
        messages[j].role = "tool" =>
            \E i \in 1..(j - 1) :
                /\ messages[i].role = "assistant"
                /\ \E c \in 1..Len(messages[i].tool_calls) :
                       messages[i].tool_calls[c].id = messages[j].tool_call_id

\* C18: after every add_message the number of turns in the buffer is at most
\* max_messages.
C18_TurnsCapped == Len(messages) <= max_messages

\* C19: an eviction pass (_optimize_history) never changes the number of
\* turns, their order, their roles, their tool_calls, tool_call_id, name or
\* importance: it only replaces texts. (obs.before is the buffer the pass
\* was given, messages the buffer it left.)
C19_EvictionKeepsFrame ==
    pc = "mem" =>
        /\ Len(messages) = Len(obs.before)
        /\ \A i \in 1..Len(messages) :
               /\ messages[i].role = obs.before[i].role
               /\ messages[i].tool_calls = obs.before[i].tool_calls
               /\ messages[i].tool_call_id = obs.before[i].tool_call_id
               /\ messages[i].name = obs.before[i].name
               /\ messages[i].importance = obs.before[i].importance

\* a pass over a buffer of three turns or more that shortened a text
C19_Witness ==
    /\ pc = "mem" /\ Len(obs.before) >= 3
    /\ \E i \in 1..Len(obs.before) :
           /\ i <= Len(messages)
           /\ TLen(messages[i].content) < TLen(obs.before[i].content)

\* C20: with default settings an eviction pass never changes the text of a
\* preserved turn - the first turn when it is a user turn, the most recent
\* min(5, n \div 3) turns of an n-turn buffer, every turn of importance 8 or
\* more - nor the text of any system or user turn.
C20_PreservedTextKept ==
    pc \in {"mem", "cap"} =>
        LET n      == Len(obs.before)
            recent == IF 5 < n \div 3 THEN 5 ELSE n \div 3
        IN  \A i \in 1..n :
                (\/ i = 1 /\ obs.before[1].role = "user"
                 \/ i > n - recent
                 \/ obs.before[i].importance >= 8
                 \/ obs.before[i].role \in {"system", "user"})
                => /\ i <= Len(messages)
                   /\ messages[i].content = obs.before[i].content

\* a pass over fifteen turns or more that shortened an older turn and left
\* the fifth most recent turn, a long assistant turn, as it was
C20_Witness ==
    /\ pc = "cap"
    /\ LET n == Len(obs.before)
       IN  /\ n >= 15 /\ n = Len(messages)
           /\ obs.before[n - 4].role = "assistant"
           /\ TLen(obs.before[n - 4].content) > 500
           /\ messages[n - 4].content = obs.before[n - 4].content
           /\ \E j \in 1..(n - 5) :
                  TLen(messages[j].content) < TLen(obs.before[j].content)

\* C21: whenever an eviction pass changes a turn's text (tool-output
\* summarizer or 30% truncation, elision notes included) the new text is
\* strictly shorter than the old one: no pass increases the length of a turn
\* or the aggregate text length of the buffer.
C21_EvictionOnlyShortens ==
    pc \in {"mem", "cap"} =>
        /\ \A i \in 1..Len(messages) :
               i <= Len(obs.before) =>
                   /\ TLen(messages[i].content) <= TLen(obs.before[i].content)
                   /\ messages[i].content /= obs.before[i].content =>
                          TLen(messages[i].content) < TLen(obs.before[i].content)
        /\ ContextLength(messages) <= ContextLength(obs.before)

\* C22: whenever an insertion leaves the aggregate text length above
\* context_length_limit by an excess e > 0, the eviction pass it triggers
\* removes at least e + 500 characters in total, all of them from
\* non-preserved tool/assistant turns, and brings the context length back
\* within the limit.
C22_EvictionRestoresBudget ==
    (pc \in {"mem", "cap"} /\ ContextLength(obs.before) > context_length_limit) =>
        LET e == ContextLength(obs.before) - context_length_limit
        IN  /\ ContextLength(obs.before) - ContextLength(messages) >= e + 500
            /\ ContextLength(messages) <= context_length_limit
            /\ \A i \in 1..Len(messages) :
                   messages[i].content /= obs.before[i].content =>
                       /\ messages[i].role \in {"tool", "assistant"}
                       /\ i \notin PreservedIndices(obs.before)

\* C23: when the loop of run() exits because current_step has reached
\* max_steps, run() returns normally (the state is not ERROR) and its result
\* is the "Step N: <result>" entries of all steps executed in this run, in
\* increasing step order, followed by the max-steps marker as the last line.
C23_BudgetExhaustedReturnsLog ==
    /\ [][(pc = "post" /\ pc' = "loop") =>
             results' = Append(results,
                               Cat(Cat3(Lit("Step "), Str(current_step), Lit(": ")),
                                   step_result))]_vars
    /\ [][(pc = "loop" /\ pc' = "idle" /\ current_step >= max_steps) =>
             /\ outcome'.kind = "returned"
             /\ state' = "IDLE"
             /\ Len(results) = current_step - obs.start_step
             /\ \A i \in 1..Len(results) :
                    LET head == Cat3(Lit("Step "), Str(obs.start_step + i), Lit(": "))
                    IN  TTake(results[i], TLen(head)) = head
             /\ outcome'.value = Join(Append(results, Terminated), NL)
             /\ LET lines == Split(outcome'.value)
                IN  lines[Len(lines)] = Terminated]_vars
    /\ [](pc \in {"loop", "think", "act", "post"} => state /= "ERROR")

\* a run that executed the steps 1 and 2 has returned two entries and the
\* marker
C23_Witness ==
    /\ pc = "idle" /\ outcome.kind = "returned" /\ ~obs.special
    /\ current_step = max_steps /\ obs.start_step = 0 /\ Len(results) = 2
    /\ Len(Split(outcome.value)) >= 3

\* C24: if run() returns without having been cancelled and without its loop
\* body having executed even once (a re-run on an agent whose current_step
\* already equals max_steps), the returned text is exactly the fixed "no
\* steps executed" sentinel.
C24_NoStepsSentinel ==
    (pc = "idle" /\ obs.runs > 0 /\ outcome.kind = "returned"
     /\ obs.iters = 0 /\ outcome.value /= CANCELLED) =>
        outcome.value = NO_STEPS_EXECUTED

\* C25: with duplicate_threshold = 3 and fewer than 3 recorded tool names,
\* is_stuck() returns true when 3 assistant turns of the buffer, the latest
\* turn among them, have byte-identical non-empty text, and false when only
\* 2 do.
C25_ThreeIdenticalStuck ==
    (/\ pc = "checked" /\ Len(recent_tools_used) < 3 /\ Len(messages) > 0
     /\ messages[Len(messages)].role = "assistant"
     /\ messages[Len(messages)].content /= <<>>) =>
        LET same == {i \in 1..Len(messages) :
                        /\ messages[i].role = "assistant"
                        /\ messages[i].content = messages[Len(messages)].content}
        IN  /\ Cardinality(same) = 3 => outcome.value
            /\ Cardinality(same) = 2 => ~outcome.value

\* C25, amended: with duplicate_threshold = 3 and fewer than 3 recorded tool
\* names, is_stuck() returns true when 4 assistant turns of the buffer, the
\* latest turn among them, have byte-identical non-empty text (the latest
\* turn and 3 earlier duplicates of it), and false when only 3 or 2 do.
C25_FourIdenticalStuck ==
    (/\ pc = "checked" /\ Len(recent_tools_used) < 3 /\ Len(messages) > 0
     /\ messages[Len(messages)].role = "assistant"
     /\ messages[Len(messages)].content /= <<>>) =>
        LET same == {i \in 1..Len(messages) :
                        /\ messages[i].role = "assistant"
                        /\ messages[i].content = messages[Len(messages)].content}
        IN  /\ Cardinality(same) = 4 => outcome.value
            /\ Cardinality(same) \in {2, 3} => ~outcome.value

\* is_stuck() returned true on a buffer of four identical assistant turns
\* with fewer than 3 recorded tool names
C25_Witness ==
    /\ pc = "checked" /\ outcome.value /\ Len(recent_tools_used) < 3
    /\ Len(messages) = 7
    /\ \A i \in {1, 3, 5, 7} :
           messages[i].role = "assistant" /\ messages[i].content = Lit("thought")

\* C26: is_stuck() returns true whenever, among all turns excluding the
\* latest, at least duplicate_threshold assistant turns have text exactly
\* equal to the (non-empty) text of the latest assistant turn - also when the
\* last turn of the buffer is a tool-result turn that follows that assistant
\* turn.
C26_DuplicatesOfLatestAssistant ==
    (pc = "checked" /\ \E i \in 1..Len(messages) : messages[i].role = "assistant") =>
        LET latest == CHOOSE i \in 1..Len(messages) :
                          /\ messages[i].role = "assistant"
                          /\ \A j \in (i + 1)..Len(messages) : messages[j].role /= "assistant"
            dups   == {i \in 1..(latest - 1) :
                          /\ messages[i].role = "assistant"
                          /\ messages[i].content = messages[latest].content}
        IN  (messages[latest].content /= <<>> /\ Cardinality(dups) >= duplicate_threshold)
                => outcome.value

\* C27: is_stuck() returns true whenever the last 3 tool names recorded in
\* the rolling window (which never holds more than 5 names) are identical,
\* whatever the buffer contains - including a buffer with fewer than 2 turns
\* or a latest turn with empty text.
C27_RepeatedToolStuck ==
    /\ Len(recent_tools_used) <= 5
    /\ (/\ pc = "checked" /\ Len(recent_tools_used) >= 3
        /\ \A i \in (Len(recent_tools_used) - 2)..Len(recent_tools_used) :
               recent_tools_used[i] = recent_tools_used[Len(recent_tools_used)])
           => outcome.value

\* C28: each handle_stuck_state() call increases the detection counter by
\* exactly 1 and prepends one corrective instruction to next_step_prompt,
\* keeping the previous text intact as a suffix; the instruction is the mild
\* phrasing for detections 1 and 2 and the forceful phrasing containing the
\* detection count from detection 3 on; buffer, state and current_step are
\* unchanged.
C28_StuckHandling ==
    [][(pc = "checked" /\ pc' = "handled") =>
          /\ accuracy_issues_detected' = accuracy_issues_detected + 1
          /\ TLen(next_step_prompt') > TLen(next_step_prompt)
          /\ TLast(next_step_prompt', TLen(next_step_prompt)) = next_step_prompt
          /\ \E head \in {TTake(next_step_prompt',
                                 TLen(next_step_prompt') - TLen(next_step_prompt))} :
             LET mild == <<Seg(" ", 12), Seg("J", 57), Seg("\n", 1)>>
             IN  IF accuracy_issues_detected' <= 2
                 THEN head = mild
                 ELSE /\ head /= mild
                      /\ head[2] = Seg("@@: ", 1)
                      /\ \E i \in 1..Len(head) :
                             head[i] = Seg(ToString(accuracy_issues_detected'), 1)
                      /\ head[Len(head)] = Seg("\n", 1)
          /\ UNCHANGED <<messages, state, current_step>>]_vars

\* the third detection has been handled: the forceful instruction stands in
\* front of the two mild ones and the original instruction
C28_Witness ==
    /\ pc = "handled" /\ accuracy_issues_detected = 3
    /\ next_step_prompt[2] = Seg("@@: ", 1)
    /\ TLast(next_step_prompt, 9) = Lit("next step")
    /\ TLen(next_step_prompt) > 2 * 70 + 9

\* C29: progress-summary synthesis becomes more frequent as stuck detections
\* accumulate: with the buffer above the monitor's thresholds and the default
\* intervals, for detection counts d1 < d2 the set of steps (21..max_steps)
\* at which the accuracy monitor synthesizes a summary under d2 is at least
\* as large as under d1.
C29_SynthesisMoreFrequent ==
    (pc = "monitor" /\ current_step = MaxMonitorStep) =>
        \A d1 \in 0..(accuracy_issues_detected - 1) :
            LET under_d1 == {s \in 21..MaxMonitorStep :
                                /\ s % accuracy_monitor_interval = 0
                                /\ _monitor_accuracy(messages, s, d1, recent_tools_used, <<>>)
                                       /= <<>>}
            IN  Cardinality(obs.synth) >= Cardinality(under_d1)

\* C30: a failure (raised exception or error result) of the progress-tracking
\* collaborator at any of its call points - initialization at run start,
\* read before a step, file recording or task completion after a step -
\* never makes run() raise, never sets state to ERROR, and does not prevent
\* that step's think/act cycle from running or its result from being logged.
C30_TrackerFailureContained ==
    /\ [][(/\ pc = "idle" /\ obs'.runs = obs.runs + 1
           /\ obs'.tracker = [point |-> "init", failed |-> TRUE]) =>
             pc' = "loop" /\ state' = "RUNNING" /\ outcome' = NoOutcome]_vars
    /\ [][(/\ pc = "loop" /\ current_step' = current_step + 1
           /\ obs'.tracker = [point |-> "read", failed |-> TRUE]) =>
             /\ pc' = "think" /\ obs'.asks = obs.asks + 1
             /\ state' = "RUNNING" /\ outcome' = NoOutcome]_vars
    /\ [][(/\ pc = "post" /\ pc' /= "post"
           /\ obs'.tracker = [point |-> "post", failed |-> TRUE]) =>
             /\ pc' = "loop"
             /\ results' = Append(results, StepEntry(current_step, step_result))
             /\ state' = state /\ outcome' = NoOutcome]_vars
    /\ [](state /= "ERROR" /\ outcome.kind /= "raised")
    /\ [](pc = "loop" => Len(results) = obs.iters)

\* a run has returned the entries of its two steps although the recording of
\* the saved files and of the completed task failed after the second step
C30_Witness ==
    /\ pc = "idle" /\ outcome.kind = "returned" /\ Len(results) = 2
    /\ obs.tracker = [point |-> "post", failed |-> TRUE]
    /\ Len(created_files) >= 2 /\ completed_tasks /= <<>>
    /\ state = "IDLE"

-----------------------------------------------------------------------------
(* C31: what a same-role insertion does to the buffer *)

\* the text a same-role insertion gives the last turn: old text, newline, new
\* text, or the one of the two that is not empty
MergedText(old, new) ==
    IF old /= <<>> /\ new /= <<>> THEN Cat3(old, NL, new)
    ELSE IF new /= <<>> THEN new ELSE old

\* the aggregate text length of the buffer once the insertion is merged
MergedLength(msgs, message) ==
    ContextLength(msgs) - TLen(msgs[Len(msgs)].content)
        + TLen(MergedText(msgs[Len(msgs)].content, message.content))

SameRoleInsertion ==
    /\ pc = "mem"
    /\ Len(messages) > 0
    /\ obs'.adds = obs.adds + 1
    /\ obs'.inserted[1].role = messages[Len(messages)].role

\* C31 as stated: add_message of a turn whose role is the last turn's role
\* leaves the turn count unchanged, gives the last turn the text old + newline
\* + new (or the single non-empty one), the concatenated tool-call lists and
\* the greater importance, and leaves every earlier turn unchanged.
C31_SameRoleMerges ==
    [][SameRoleInsertion =>
        LET n       == Len(messages)
            message == obs'.inserted[1]
        IN  /\ Len(messages') = n
            /\ messages'[n].content
                   = MergedText(messages[n].content, message.content)
            /\ messages'[n].tool_calls
                   = messages[n].tool_calls \o message.tool_calls
            /\ messages'[n].importance
                   = Max(messages[n].importance, message.importance)
            /\ \A i \in 1..(n - 1) : messages'[i] = messages[i]]_vars

\* C31 amended: the turn count, the tool-call lists, the importance and
\* every field of the earlier turns other than the text are as stated for
\* every same-role insertion; the texts are as stated when the aggregate text
\* length of the merged buffer is within context_length_limit (the eviction
\* pass that ends add_message rewrites texts otherwise).
C31_SameRoleMergesWithinBudget ==
    [][SameRoleInsertion =>
        LET n       == Len(messages)
            message == obs'.inserted[1]
        IN  /\ Len(messages') = n
            /\ messages'[n].tool_calls
                   = messages[n].tool_calls \o message.tool_calls
            /\ messages'[n].importance
                   = Max(messages[n].importance, message.importance)
            /\ \A i \in 1..(n - 1) :
                   [messages'[i] EXCEPT !.content = <<>>]
                       = [messages[i] EXCEPT !.content = <<>>]
            /\ MergedLength(messages, message) <= context_length_limit
                   => /\ messages'[n].content
                             = MergedText(messages[n].content, message.content)
                      /\ \A i \in 1..(n - 1) : messages'[i] = messages[i]]_vars

\* a same-role insertion has joined two texts and two tool-call lists behind an
\* earlier turn
C31_Witness ==
    /\ pc = "mem" /\ obs.merged
    /\ Len(messages) >= 2
    /\ messages[Len(messages)].content = Cat3(Lit("a"), NL, Lit("a"))
    /\ Len(messages[Len(messages)].tool_calls) = 2
    /\ messages[Len(messages)].importance = 7

-----------------------------------------------------------------------------
(* C32: a special tool that fails does not finish the run *)

\* the observation execute_tool returns on its three except/early paths
FailedObservation(observation) == StartsWith(observation, "Error:")

\* C32: a call to a special tool finishes the run only if it executes
\* successfully: a call whose invocation raises or whose arguments are
\* malformed leaves state as it is, state becomes FINISHED only with the
\* observation of a special tool that ran, and an iteration that ends with
\* state not FINISHED, steps left and no cancellation is followed by the next
\* step.
C32_FailedSpecialToolContinues ==
    [][/\ (pc = "act" /\ act_idx' = act_idx + 1) =>
            LET command     == tool_calls[act_idx]
                observation == act_results'[act_idx]
            IN  /\ (_is_special_tool(command.name)
                    /\ FailedObservation(observation)) => state' = state
                /\ (state' = "FINISHED" /\ state /= "FINISHED") =>
                       /\ _is_special_tool(command.name)
                       /\ ~FailedObservation(observation)
       /\ (/\ pc = "loop" /\ pc' /= "loop"
           /\ state /= "FINISHED" /\ current_step < max_steps /\ ~cancel_event)
            => /\ current_step' = current_step + 1
               /\ pc' /= "idle"]_vars

\* step 1 called the special tool twice, once with malformed arguments and once
\* with the tool raising, and step 2 has begun with the agent still RUNNING
C32_Witness ==
    /\ current_step = 2 /\ state = "RUNNING" /\ pc = "think"
    /\ Len(tool_calls) = 2 /\ Len(act_results) = 2
    /\ tool_calls[1].name = "terminate" /\ tool_calls[1].arguments = "{"
    /\ tool_calls[2].name = "terminate" /\ tool_calls[2].arguments = "{}"
    /\ FailedObservation(act_results[1])
    /\ FailedObservation(act_results[2])

-----------------------------------------------------------------------------
(* C33: the tool window at the time of the stuck check *)

\* the step's result names the tool it ran in the form the window records
NamesTool(result) == StartsWith(result, "Observed output of cmd ^")

\* the result of step k of the run in progress, from its entry "Step k: ..."
ResultOf(k) == TDrop(results[k], TLen(StepEntry(k, <<>>)))

\* steps k-2, k-1 and k of the run ran the same tool with the same output,
\* step_result being the result of the step in progress
SameToolThrice(k) ==
    /\ k >= 3 /\ Len(results) >= k - 1
    /\ LET r == IF k = current_step THEN step_result ELSE ResultOf(k)
       IN  /\ NamesTool(r)
           /\ ResultOf(k - 1) = r
           /\ ResultOf(k - 2) = r

\* C33: at the stuck check that ends step N the window holds the name of step
\* N: steps N-2, N-1, N that each ran the same tool trigger the detector at
\* the end of step N, and three identical names do not trigger it at the end
\* of a step N that ran a different tool.
C33_WindowHoldsCurrentStep ==
    [][(pc = "post" /\ pc' = "loop" /\ Len(results) = current_step - 1) =>
          LET triggered == accuracy_issues_detected' = accuracy_issues_detected + 1
          IN  /\ SameToolThrice(current_step) => triggered
              /\ (/\ current_step >= 4
                  /\ SameToolThrice(current_step - 1)
                  /\ NamesTool(step_result)
                  /\ step_result /= ResultOf(current_step - 1)) => ~triggered]_vars

-----------------------------------------------------------------------------
(* C34: the order of an eviction pass *)

\* turn i of the buffer the pass started on is a candidate of the pass
Candidate(i) ==
    LET n == Len(obs.before)
    IN  /\ obs.before[i].role \in {"tool", "assistant"}
        /\ ~(i = 1 /\ obs.before[1].role = "user")
        /\ i <= n - Min(5, n \div 3)
        /\ obs.before[i].importance < 8

\* the pass has shortened the text of turn i
Shortened(i) == TLen(messages[i].content) < TLen(obs.before[i].content)

\* the pass has visited turn i: its text is what the loop body makes of it
Processed(i) == messages[i].content = OptimizeContent(obs.before[i])

\* C34: within one eviction pass candidates are processed in ascending
\* importance: when the pass has shortened a turn, every non-preserved tool or
\* assistant turn of strictly lower importance has been processed, whatever its
\* role and position.
C34_AscendingImportance ==
    (pc = "mem" /\ ContextLength(obs.before) > context_length_limit) =>
        \A i \in 1..Len(messages) :
            Shortened(i) =>
                \A j \in 1..Len(messages) :
                    (Candidate(j)
                     /\ obs.before[j].importance < obs.before[i].importance)
                        => Processed(j)

\* a pass has shortened a tool turn of importance 7 that stands before an
\* assistant turn of importance 5, which it has shortened too
C34_Witness ==
    /\ pc = "mem" /\ ContextLength(obs.before) > context_length_limit
    /\ \E i, j \in 1..Len(messages) :
           /\ i < j
           /\ obs.before[i].role = "tool" /\ obs.before[i].importance = 7
           /\ obs.before[j].role = "assistant" /\ obs.before[j].importance = 5
           /\ Candidate(i) /\ Candidate(j)
           /\ Shortened(i) /\ Shortened(j)

-----------------------------------------------------------------------------
(* C35: the eviction pass and the turn just inserted *)

-----------------------------------------------------------------------------
(* C36: the max-steps marker and a run ended by a special tool *)

\* the last line of the text run() returned is the max-steps marker
HasMarker(text) ==
    LET lines == Split(text)
    IN  lines[Len(lines)] = Terminated

\* C36: the max-steps marker is in the result of run() only when the run
\* stopped because the step budget was exhausted: a run ended by a special
\* tool (the loop is left with state FINISHED) never carries it, also when the
\* special tool ran in step number max_steps.
C36_MarkerOnlyOnExhaustion ==
    [][(pc = "loop" /\ pc' = "idle" /\ outcome'.kind = "returned"
        /\ HasMarker(outcome'.value))
          => (state /= "FINISHED" /\ current_step >= max_steps)]_vars

-----------------------------------------------------------------------------
(* C37: the pending next-step instruction over a run *)

\* part occurs in text as a run of whole segments
Contains(text, part) ==
    \E i \in 0..(Len(text) - Len(part)) : SubSeq(text, i + 1, i + Len(part)) = part

\* the corrective instructions of the detections 1..MaxPromptSteps
StuckInstructions == {stuck_prompt(n) : n \in 1..MaxPromptSteps}

\* C37: the pending next-step instruction is never cleared or shortened:
\* every step of the program leaves it as it is or extends it at its head or
\* at its tail, the copy sent as a user turn is the only text the 500-character
\* compaction shortens, and a corrective instruction that is part of it is
\* part of it at every later step.
C37_PromptOnlyGrows ==
    /\ [][/\ TLen(next_step_prompt') >= TLen(next_step_prompt)
          /\ \/ TTake(next_step_prompt', TLen(next_step_prompt)) = next_step_prompt
             \/ TLast(next_step_prompt', TLen(next_step_prompt)) = next_step_prompt]_vars
    /\ [][(pc = "loop" /\ pc' = "think" /\ next_step_prompt' /= <<>>) =>
             /\ messages'[Len(messages')].role = "user"
             /\ TLen(next_step_prompt') <= 500
                    => messages'[Len(messages')].content = next_step_prompt'
             /\ TLen(messages'[Len(messages')].content) <= TLen(next_step_prompt')]_vars
    /\ [][\A instruction \in StuckInstructions :
              Contains(next_step_prompt, instruction)
                  => Contains(next_step_prompt', instruction)]_vars

\* step 30 has begun: the instruction holds the first corrective instruction,
\* a forceful one, the self-review note of step 5, an excerpt of the progress
\* file and the progress summary of step 30, and the user turn sent is a
\* shorter copy of it
C37_Witness ==
    /\ pc = "think" /\ current_step = 30 /\ progress_file_initialized
    /\ Contains(next_step_prompt, stuck_prompt(1))
    /\ Contains(next_step_prompt, stuck_prompt(3))
    /\ Contains(next_step_prompt, <<Seg("# ", 1), Seg("J", 9), Seg("5", 1)>>)
    /\ Contains(next_step_prompt,
                <<Seg("## ", 1), Seg("J", 7), Seg("\n", 1), Seg("progress", 1)>>)
    /\ Contains(next_step_prompt, <<Seg("J", 31), Seg("@@", 1), Seg("J", 27)>>)
    /\ TLen(next_step_prompt) > 500
    /\ messages[Len(messages)].role = "user"
    /\ TLen(messages[Len(messages)].content) < TLen(next_step_prompt)

-----------------------------------------------------------------------------
(* C38: add_log_entry and the class lock *)

\* a thread stands at the entry of a with block while it holds the lock
WaitsForItself(t) == Running(t) /\ Top(t).at = "lock" /\ _lock = t

\* C38: on no call path from add_log_entry (add_thinking_step or add_error
\* for an INFO, WARNING or ERROR entry, _notify_ws_log_update calling
\* get_status when a callback is registered) does a thread try to acquire
\* the class lock while it already holds it
C38_NoSelfAcquire ==
    \A t \in Threads :
        (Running(t) /\ stack[t][1].fn = "add_log_entry") => ~WaitsForItself(t)

-----------------------------------------------------------------------------
(* C39: a stop request that arrives during the agent's run *)

\* the session was stopped, and its event set, while run() is in progress
StoppedDuringRun ==
    /\ web_pc = "run"
    /\ cancel_events = "set"
    /\ active_sessions = [status |-> "stopped", result |-> STOPPED_BY_USER]

\* C39: once stop_processing has set the session's event and marked the
\* session "stopped" while the agent's run is in progress, process_prompt
\* never overwrites the session's status with "completed" and its result
\* with the agent's output
C39_StopNotOverwritten ==
    [][StoppedDuringRun => active_sessions'.status /= "completed"]_vars

====
